---- MODULE Spec2Model ----
(***************************************************************************)
(* A model of the two browser-automation runners of the repository:        *)
(*   - app/browser_automation.py + app/browser_tool.py  (the bridge form:  *)
(*     load_config, run_from_config, BrowserAutomation.run)                *)
(*   - playwright_autobot.py (the standalone form: main, AutoBot.run,      *)
(*     load_json_or_jsonc)                                                 *)
(* and of the cache of app/service.py (AirdropSummaryService).             *)
(*                                                                         *)
(* Python values are encoded uniformly so that TLC can compare them:       *)
(*   str            a sequence of tokens, "/" always a token of its own    *)
(*   None (of str)  the one-token sequence None                            *)
(*   Optional[int]  a set holding at most one integer ({} is None)         *)
(*   Optional[dict] a tagged record, JNull for None and JMap(f) for a dict  *)
(*   an exception   a record [type, msg]; NoExc when nothing is raised     *)
(***************************************************************************)
EXTENDS Integers, Sequences, FiniteSets, TLC

VARIABLES
    \* ---- bridge form: BrowserAutomation.run and run_from_config ----
    pc,               \* position of the call
    entry,            \* "api": BrowserAutomation.run called directly; "cli": run_from_config
    actions,          \* the actions handed to run
    base_url,         \* run's base_url argument
    browser_type,     \* self.browser_type
    stop_on_failure,  \* self.stop_on_failure
    executed,         \* run's local list of ActionResult
    idx,              \* number of actions the for loop has consumed
    events,           \* every call made on the playwright objects, in order
    exc,              \* the exception being propagated, NoExc when none
    result,           \* what run returned: [returned, actions]
    doc,              \* the configuration file given to run_from_config
    config,           \* load_config's AutomationConfig: [loaded, actions, base_url, settings]
    factory_calls,    \* number of calls of automation_factory
    exit_code,        \* run_from_config's return value, {} while none
    stdout,           \* lines written to stdout
    stderr,           \* lines written to stderr
    \* ---- standalone form: playwright_autobot.main and AutoBot.run ----
    ab_pc,            \* position of main / AutoBot.run
    ab_file,          \* the file named by --config
    ab_args,          \* the parsed command line (overrides)
    ab_cfg,           \* the BotConfig, after the overrides
    ab_context,       \* self.context: "none", "open", "closed"
    ab_i,             \* index of the step the for loop is at (1-based, 0 before)
    ab_attempt,       \* the attempt counter of the while loop
    ab_events,        \* every call on playwright objects and every time.sleep, in order
    ab_exc,           \* the exception being propagated, NoExc when none
    ab_rc,            \* main's return value, {} while none
    ab_status,        \* the exit status of the process, {} while it runs
    \* ---- load_config called twice on one document ----
    ld_pc,            \* position of the load_config call
    ld_acc,           \* load_config's local list "actions"
    ld_k,             \* number of entries the for loop has consumed
    ld_loads,         \* what each finished call returned or raised, in order
    \* ---- app/service.py: AirdropSummaryService ----
    svc_pc,           \* "idle" when the service is not used, else "ready"
    svc_cache,        \* self._cache: {} for None, else {summary}
    svc_last_updated, \* self._last_updated: {} for None, else {time}
    svc_clock,        \* what datetime.utcnow() returns next
    svc_fetches,      \* number of calls of _fetch_tweets
    svc_log,          \* one record per call of refresh / get_summary, in order
    \* ---- load_json_or_jsonc on a text ----
    jc_pc,            \* position of the load_json_or_jsonc call
    jc_src,           \* the text of the file, a sequence of characters
    jc_text,          \* the local variable text of load_json_or_jsonc
    jc_out            \* what the call returned or raised

bridge_vars == <<pc, entry, actions, base_url, browser_type, stop_on_failure, executed,
                 idx, events, exc, result, doc, config, factory_calls, exit_code,
                 stdout, stderr>>
ab_vars == <<ab_pc, ab_file, ab_args, ab_cfg, ab_context, ab_i, ab_attempt, ab_events,
             ab_exc, ab_rc, ab_status>>
ld_vars == <<ld_pc, ld_acc, ld_k, ld_loads>>
svc_vars == <<svc_pc, svc_cache, svc_last_updated, svc_clock, svc_fetches, svc_log>>
jc_vars == <<jc_pc, jc_src, jc_text, jc_out>>
ext_vars == <<ld_vars, svc_vars, jc_vars>>
vars == <<bridge_vars, ab_vars, ext_vars>>

(***************************************************************************)
(* Bounds of the model.                                                    *)
(***************************************************************************)
MaxActions == 2     \* longest action list handed to BrowserAutomation.run
MaxSteps == 2       \* longest step list of a standalone configuration
MaxRetries == 2     \* largest retry count (step level or run level)

(***************************************************************************)
(* Python values.                                                          *)
(***************************************************************************)
None == <<"<None>">>
Truthy(s) == s # None /\ s # <<>>
NoExc == [type |-> "none", msg |-> <<>>]
Exc(t, m) == [type |-> t, msg |-> m]

\* A parsed JSON value, and a dict or None held by an object, is a tagged
\* record: null (None), bool, num, str, list (items: a sequence of values) or
\* map (m: a function from keys to values).
JNull == [t |-> "null"]
JBool(b) == [t |-> "bool", b |-> b]
JNum(n) == [t |-> "num", n |-> n]
JStr(s) == [t |-> "str", s |-> s]
JList(xs) == [t |-> "list", items |-> xs]
JMap(f) == [t |-> "map", m |-> f]
EmptyDict == [k \in {} |-> JNull]
EmptyMap == JMap(EmptyDict)

\* Sequences over S of length at most n.
SeqUpTo(S, n) == UNION {[1..k -> S] : k \in 0..n}

\* rstrip left out: the base URL is used as it is.
rstrip_nothing(s) == s

RECURSIVE rstrip(_)
\* str.rstrip("/")
rstrip(s) ==
    IF s # <<>> /\ s[Len(s)] = "/" THEN rstrip(SubSeq(s, 1, Len(s) - 1)) ELSE s

RECURSIVE lstrip(_)
\* str.lstrip("/")
lstrip(s) ==
    IF s # <<>> /\ s[1] = "/" THEN lstrip(Tail(s)) ELSE s

\* The URL schemes of this model; a reference starting with one is absolute.
Schemes == {"https:"}
IsAbsolute(url) == url # <<>> /\ url[1] \in Schemes

\* urllib.parse.urljoin(base, url) for a hierarchical base that ends in "/"
\* (without query or fragment) and a reference without a leading "/" or dot
\* segments, which is what _resolve_url hands it for the URLs of this model:
\* an empty reference gives the base, a reference with a scheme is returned
\* as it is, and any other reference replaces the (empty) last segment of the
\* base path.
urljoin(base, url) ==
    IF url = <<>> THEN base
    ELSE IF base = <<>> THEN url
    ELSE IF IsAbsolute(url) THEN url
    ELSE base \o url

(***************************************************************************)
(* app/browser_automation.py                                               *)
(***************************************************************************)
\* The tuple with a sixth name.
SUPPORTED_ACTIONS_with_hover ==
    {"goto", "click", "fill", "wait_for_selector", "screenshot", "hover"}

SUPPORTED_ACTIONS == {"goto", "click", "fill", "wait_for_selector", "screenshot"}

BrowserAction(n, sel, txt, u, p, opts) ==
    [name |-> n, selector |-> sel, text |-> txt, url |-> u, path |-> p, options |-> opts]

ActionResult(n, ok, d) == [name |-> n, success |-> ok, detail |-> d]

\* successful with any() in place of all().
successful_any(res) == \E k \in 1..Len(res) : res[k].success

\* BrowserAutomationResult.successful
successful(res) == \A k \in 1..Len(res) : res[k].success

\* What a handler does before any page outcome is known: either it raises
\* (raises, msg) or it issues one page call (op, args, kwargs).
Raises(m) == [raises |-> TRUE, msg |-> m, op |-> "", args |-> <<>>, kwargs |-> EmptyDict]
Calls(o, a, kw) == [raises |-> FALSE, msg |-> <<>>, op |-> o, args |-> a, kwargs |-> kw]

\* dict(action.options or {})
OptionsOf(action) == IF action.options.t = "null" THEN EmptyDict ELSE action.options.m

\* _resolve_url with its first two tests exchanged: path and base URL are
\* looked at before url.
_resolve_url_path_first(action, base) ==
    IF Truthy(action.path) /\ Truthy(base)
        THEN [ok |-> TRUE, val |-> urljoin(rstrip(base) \o <<"/">>, lstrip(action.path))]
    ELSE IF Truthy(action.url) THEN [ok |-> TRUE, val |-> action.url]
    ELSE IF Truthy(base) /\ ~Truthy(action.path) THEN [ok |-> TRUE, val |-> base]
    ELSE [ok |-> FALSE, val |-> <<"No URL provided for 'goto' action">>]

_resolve_url(action, base) ==
    IF Truthy(action.url) THEN [ok |-> TRUE, val |-> action.url]
    ELSE IF Truthy(action.path) /\ Truthy(base)
        THEN [ok |-> TRUE, val |-> urljoin(rstrip(base) \o <<"/">>, lstrip(action.path))]
    ELSE IF Truthy(base) /\ ~Truthy(action.path) THEN [ok |-> TRUE, val |-> base]
    ELSE [ok |-> FALSE, val |-> <<"No URL provided for 'goto' action">>]

\* _handle_goto without _resolve_url: page.goto(action.url) whatever url is.
_handle_goto_url_only(action, base) ==
    Calls("goto", <<action.url>>, OptionsOf(action))

_handle_goto(action, base) ==
    LET url == _resolve_url(action, base) IN
    IF ~url.ok THEN Raises(url.val)
    ELSE Calls("goto", <<url.val>>, OptionsOf(action))

\* _handle_click without its selector test: page.click is always called.
_handle_click_unchecked(action, base) ==
    Calls("click", <<action.selector>>, OptionsOf(action))

_handle_click(action, base) ==
    IF ~Truthy(action.selector) THEN Raises(<<"'click' action requires a ", "selector">>)
    ELSE Calls("click", <<action.selector>>, OptionsOf(action))

_handle_fill(action, base) ==
    IF ~Truthy(action.selector) THEN Raises(<<"'fill' action requires a ", "selector">>)
    ELSE IF action.text = None THEN Raises(<<"'fill' action requires ", "text", " to input">>)
    ELSE Calls("fill", <<action.selector, action.text>>, OptionsOf(action))

_handle_wait_for_selector(action, base) ==
    IF ~Truthy(action.selector)
        THEN Raises(<<"'wait_for_selector' action requires a ", "selector">>)
    ELSE Calls("wait_for_selector", <<action.selector>>, OptionsOf(action))

_handle_screenshot(action, base) ==
    IF ~Truthy(action.path) THEN Raises(<<"'screenshot' action requires a ", "path">>)
    ELSE Calls("screenshot", <<action.path>>, OptionsOf(action))

\* The class without its _handle_screenshot method.
HasHandler_no_screenshot(n) == n \in {"goto", "click", "fill", "wait_for_selector"}

\* getattr(self, f"_handle_{action.name}"): the class defines the five handlers.
HasHandler(n) == n \in {"goto", "click", "fill", "wait_for_selector", "screenshot"}

Handler(action, base) ==
    CASE action.name = "goto" -> _handle_goto(action, base)
      [] action.name = "click" -> _handle_click(action, base)
      [] action.name = "fill" -> _handle_fill(action, base)
      [] action.name = "wait_for_selector" -> _handle_wait_for_selector(action, base)
      [] action.name = "screenshot" -> _handle_screenshot(action, base)

\* What the page does with a call: it returns (NoExc), or raises an Exception
\* whose str() is msg (possibly the empty string).
PageOk == NoExc
PageErrors == {Exc("Error", <<>>), Exc("TimeoutError", <<"Timeout exceeded">>)}
PageOutcomes == {PageOk} \cup PageErrors

\* Whether _execute_action(action) reaches a page call.
ReachesPage(action, base) == HasHandler(action.name) /\ ~Handler(action, base).raises

\* The page call issued for the i-th action, as FakePage.calls records it,
\* with what the page did with it (err).
PageCall(i, action, base, out) ==
    LET h == Handler(action, base) IN
    [kind |-> "page", op |-> h.op, args |-> h.args, kwargs |-> h.kwargs, idx |-> i,
     err |-> out]

Returns(res) == [returned |-> TRUE, result |-> res, exc |-> NoExc]
Escapes(e) == [returned |-> FALSE, result |-> ActionResult("", FALSE, None), exc |-> e]

\* _execute_action with "except ValueError" in place of "except Exception":
\* a playwright error raised by the page gets through.
_execute_action_except_ValueError(action, base, out) ==
    IF ~HasHandler(action.name)
        THEN Returns(ActionResult(action.name, FALSE,
                 <<"'BrowserAutomation' object has no attribute", action.name>>))
    ELSE LET h == Handler(action, base) IN
        IF h.raises THEN Returns(ActionResult(action.name, FALSE, h.msg))
        ELSE IF out # NoExc THEN Escapes(out)
        ELSE Returns(ActionResult(action.name, TRUE, None))

\* _execute_action, given what the page call (if reached) did: the ActionResult
\* it returns, or the exception it lets through.  "except Exception" catches
\* whatever a handler or the page raises.
_execute_action(action, base, out) ==
    IF ~HasHandler(action.name)
        THEN Returns(ActionResult(action.name, FALSE,
                 <<"'BrowserAutomation' object has no attribute", action.name>>))
    ELSE LET h == Handler(action, base) IN
        IF h.raises THEN Returns(ActionResult(action.name, FALSE, h.msg))
        ELSE IF out # NoExc THEN Returns(ActionResult(action.name, FALSE, out.msg))
        ELSE Returns(ActionResult(action.name, TRUE, None))

(***************************************************************************)
(* BrowserAutomation.run, one action per call on the playwright objects.   *)
(***************************************************************************)
\* The attributes of the playwright object that name a browser type.
AvailableBrowsers == {"chromium", "firefox", "webkit"}

_get_browser_type(bt) ==
    IF bt \in AvailableBrowsers THEN [ok |-> TRUE, exc |-> NoExc]
    ELSE [ok |-> FALSE, exc |-> Exc("ValueError", <<"Browser type is not available", bt>>)]

\* An error raised by a playwright object outside a page call.
SessionErr == Exc("Error", <<"playwright failure">>)

Ev(k) == [kind |-> k, op |-> "", args |-> <<>>, kwargs |-> EmptyDict, idx |-> 0, err |-> NoExc]

\* load_config, the summary service and load_json_or_jsonc are not in use.
LdIdle == ld_pc = "idle" /\ ld_acc = <<>> /\ ld_k = 0 /\ ld_loads = <<>>
SvcIdle ==
    /\ svc_pc = "idle"
    /\ svc_cache = {}
    /\ svc_last_updated = {}
    /\ svc_clock = 0
    /\ svc_fetches = 0
    /\ svc_log = <<>>
JcIdle ==
    /\ jc_pc = "idle"
    /\ jc_src = <<>>
    /\ jc_text = <<>>
    /\ jc_out = [ok |-> FALSE, val |-> <<>>]
ExtIdle == LdIdle /\ SvcIdle /\ JcIdle

BridgeIdle ==
    /\ doc = [kind |-> "none", root |-> [t |-> "null"]]
    /\ config = [loaded |-> FALSE, actions |-> <<>>, base_url |-> None,
                 settings |-> EmptyDict]
    /\ factory_calls = 0
    /\ exit_code = {}
    /\ stdout = <<>>
    /\ stderr = <<>>

RunFresh ==
    /\ executed = <<>>
    /\ idx = 0
    /\ events = <<>>
    /\ exc = NoExc
    /\ result = [returned |-> FALSE, actions |-> <<>>]

\* executed = []; with self._playwright_factory() as playwright:
RunEnter ==
    /\ pc = "run"
    /\ executed' = <<>>
    /\ \E fails \in BOOLEAN :
        IF fails
            THEN /\ exc' = SessionErr
                 /\ pc' = "raised"
                 /\ events' = events
            ELSE /\ exc' = exc
                 /\ pc' = "get_browser_type"
                 /\ events' = Append(events, Ev("playwright.enter"))
    /\ UNCHANGED <<entry, actions, base_url, browser_type, stop_on_failure, idx, result,
                   doc, config, factory_calls, exit_code, stdout, stderr, ab_vars,
                   ext_vars>>

\* browser_type = self._get_browser_type(playwright)
RunGetBrowserType ==
    /\ pc = "get_browser_type"
    /\ LET bt == _get_browser_type(browser_type) IN
        /\ exc' = bt.exc
        /\ pc' = IF bt.ok THEN "launch" ELSE "exit_playwright"
    /\ UNCHANGED <<entry, actions, base_url, browser_type, stop_on_failure, executed, idx,
                   events, result, doc, config, factory_calls, exit_code, stdout, stderr,
                   ab_vars, ext_vars>>

\* browser = browser_type.launch(...)
RunLaunch ==
    /\ pc = "launch"
    /\ \E fails \in BOOLEAN :
        IF fails
            THEN /\ exc' = SessionErr
                 /\ pc' = "exit_playwright"
                 /\ events' = events
            ELSE /\ exc' = exc
                 /\ pc' = "new_context"
                 /\ events' = Append(events, Ev("launch"))
    /\ UNCHANGED <<entry, actions, base_url, browser_type, stop_on_failure, executed, idx,
                   result, doc, config, factory_calls, exit_code, stdout, stderr, ab_vars,
                   ext_vars>>

\* new_context() called before the outer try: its failure skips browser.close().
AfterNewContextFails_before_try == "exit_playwright"

\* Where control goes when new_context raises: the outer finally (browser.close()).
AfterNewContextFails == "close_browser"

\* new_page() called before the inner try: its failure skips context.close().
AfterNewPageFails_before_try == "close_browser"

\* Where control goes when new_page raises: the inner finally (context.close()).
AfterNewPageFails == "close_context"

\* context = browser.new_context(...), inside the outer try
RunNewContext ==
    /\ pc = "new_context"
    /\ \E fails \in BOOLEAN :
        IF fails
            THEN /\ exc' = SessionErr
                 /\ pc' = AfterNewContextFails
                 /\ events' = events
            ELSE /\ exc' = exc
                 /\ pc' = "new_page"
                 /\ events' = Append(events, Ev("new_context"))
    /\ UNCHANGED <<entry, actions, base_url, browser_type, stop_on_failure, executed, idx,
                   result, doc, config, factory_calls, exit_code, stdout, stderr, ab_vars,
                   ext_vars>>

\* page = context.new_page(), inside the inner try
RunNewPage ==
    /\ pc = "new_page"
    /\ \E fails \in BOOLEAN :
        IF fails
            THEN /\ exc' = SessionErr
                 /\ pc' = AfterNewPageFails
                 /\ events' = events
            ELSE /\ exc' = exc
                 /\ pc' = "loop"
                 /\ events' = Append(events, Ev("new_page"))
    /\ UNCHANGED <<entry, actions, base_url, browser_type, stop_on_failure, executed, idx,
                   result, doc, config, factory_calls, exit_code, stdout, stderr, ab_vars,
                   ext_vars>>

\* The break test without the policy: "if not result.success: break".
Breaks_on_any_failure(res, stop) == ~res.success

\* The break test never taken.
Breaks_never(res, stop) == FALSE

\* Whether the loop leaves after this result: if not result.success and
\* self.stop_on_failure: break
Breaks(res, stop) == ~res.success /\ stop

\* The loop walking the list backwards: "for action in reversed(actions)".
CurrentAction_reversed(acts, n) == acts[Len(acts) - n]

\* The action the for loop hands out after n iterations.
CurrentAction(acts, n) == acts[n + 1]

\* The loop outside the inner try: leaving it skips context.close().
AfterLoop_outside_try == "close_browser"

\* Where control goes when the for loop is left, by exhaustion or by break: the
\* finally of the inner try (context.close()).
AfterLoop == "close_context"

\* A loop that hands a failed action out again.
Consumed_unless_failed(n, res) == IF res.success THEN n + 1 ELSE n

\* for action in actions: whatever its result, the action is consumed.
Consumed(n, res) == n + 1

\* One iteration of "for action in actions": _execute_action, append, break test.
RunExecuteAction ==
    /\ pc = "loop"
    /\ idx < Len(actions)
    /\ LET i == idx + 1
           action == CurrentAction(actions, idx)
           reaches == ReachesPage(action, base_url)
       IN \E out \in IF reaches THEN PageOutcomes ELSE {PageOk} :
           LET r == _execute_action(action, base_url, out) IN
           /\ events' = IF reaches THEN Append(events, PageCall(i, action, base_url, out))
                        ELSE events
           /\ idx' = Consumed(idx, r.result)
           /\ IF r.returned
                THEN /\ executed' = Append(executed, r.result)
                     /\ exc' = exc
                     /\ pc' = IF Breaks(r.result, stop_on_failure)
                              THEN AfterLoop ELSE "loop"
                ELSE /\ executed' = executed
                     /\ exc' = r.exc
                     /\ pc' = "close_context"
    /\ UNCHANGED <<entry, actions, base_url, browser_type, stop_on_failure, result,
                   doc, config, factory_calls, exit_code, stdout, stderr, ab_vars,
                   ext_vars>>

\* The for loop is exhausted.
RunLoopEnd ==
    /\ pc = "loop"
    /\ idx = Len(actions)
    /\ pc' = AfterLoop
    /\ UNCHANGED <<entry, actions, base_url, browser_type, stop_on_failure, executed, idx,
                   events, exc, result, doc, config, factory_calls, exit_code, stdout,
                   stderr, ab_vars, ext_vars>>

\* finally: context.close()  (an error raised by close replaces the pending one)
RunCloseContext ==
    /\ pc = "close_context"
    /\ events' = Append(events, Ev("context.close"))
    /\ \E fails \in BOOLEAN : exc' = IF fails THEN SessionErr ELSE exc
    /\ pc' = "close_browser"
    /\ UNCHANGED <<entry, actions, base_url, browser_type, stop_on_failure, executed, idx,
                   result, doc, config, factory_calls, exit_code, stdout, stderr, ab_vars,
                   ext_vars>>

\* finally: browser.close()
RunCloseBrowser ==
    /\ pc = "close_browser"
    /\ events' = Append(events, Ev("browser.close"))
    /\ \E fails \in BOOLEAN : exc' = IF fails THEN SessionErr ELSE exc
    /\ pc' = "exit_playwright"
    /\ UNCHANGED <<entry, actions, base_url, browser_type, stop_on_failure, executed, idx,
                   result, doc, config, factory_calls, exit_code, stdout, stderr, ab_vars,
                   ext_vars>>

\* The with block is left; return BrowserAutomationResult(executed) unless an
\* exception is propagating.
RunExit ==
    /\ pc = "exit_playwright"
    /\ events' = Append(events, Ev("playwright.exit"))
    /\ IF exc = NoExc
        THEN /\ result' = [returned |-> TRUE, actions |-> executed]
             /\ pc' = "returned"
        ELSE /\ result' = result
             /\ pc' = "raised"
    /\ UNCHANGED <<entry, actions, base_url, browser_type, stop_on_failure, executed, idx,
                   exc, doc, config, factory_calls, exit_code, stdout, stderr, ab_vars,
                   ext_vars>>

RunNext ==
    \/ RunEnter
    \/ RunGetBrowserType
    \/ RunLaunch
    \/ RunNewContext
    \/ RunNewPage
    \/ RunExecuteAction
    \/ RunLoopEnd
    \/ RunCloseContext
    \/ RunCloseBrowser
    \/ RunExit

(***************************************************************************)
(* Inputs of BrowserAutomation.run called directly.                        *)
(***************************************************************************)
Sel == <<"#go">>
Txt == <<"user">>
Url == <<"https:", "/", "/", "x.test">>
Base == <<"https:", "/", "/", "example.com">>
Dash == <<"/", "dash">>
Png == <<"result.png">>
Opts == JMap([wait_until |-> JStr(<<"networkidle">>)])

ActionPool ==
    { BrowserAction("goto", None, None, Url, None, Opts),
      BrowserAction("goto", None, None, None, Dash, JNull),
      BrowserAction("goto", None, None, None, None, JNull),
      BrowserAction("click", Sel, None, None, None, JNull),
      BrowserAction("click", None, None, None, None, JNull),
      BrowserAction("fill", Sel, Txt, None, None, JNull),
      BrowserAction("fill", Sel, None, None, None, JNull),
      BrowserAction("fill", None, Txt, None, None, JNull),
      BrowserAction("wait_for_selector", <<>>, None, None, None, JNull),
      BrowserAction("screenshot", None, None, None, Png, JNull),
      BrowserAction("screenshot", None, None, None, None, JNull),
      BrowserAction("hover", Sel, None, None, None, JNull) }

NoArgs ==
    [profile |-> [t |-> "null"], headless |-> [t |-> "null"], browser |-> [t |-> "null"],
     timeout |-> [t |-> "null"], retries |-> [t |-> "null"]]

NoBotConfig ==
    [start_url |-> [t |-> "null"], steps |-> <<>>, profile |-> [t |-> "null"],
     headless |-> FALSE, browser |-> <<>>, default_timeout |-> 0,
     step_default_retries |-> 0]

AbIdle ==
    /\ ab_pc = "idle"
    /\ ab_file = [kind |-> "none", root |-> [t |-> "null"]]
    /\ ab_args = NoArgs
    /\ ab_cfg = NoBotConfig
    /\ ab_status = {}
    /\ ab_context = "none"
    /\ ab_i = 0
    /\ ab_attempt = 0
    /\ ab_events = <<>>
    /\ ab_exc = NoExc
    /\ ab_rc = {}

\* BrowserAutomation(browser_type=..., stop_on_failure=...).run(actions, base_url=...)
InitRun ==
    /\ pc = "run"
    /\ entry = "api"
    /\ actions \in SeqUpTo(ActionPool, MaxActions)
    /\ base_url \in {None, Base}
    /\ browser_type \in {"chromium", "netscape"}
    /\ stop_on_failure \in BOOLEAN
    /\ RunFresh
    /\ BridgeIdle
    /\ AbIdle
    /\ ExtIdle

SpecRun == InitRun /\ [][RunNext]_vars

(***************************************************************************)
(* app/browser_tool.py: load_config and run_from_config.                   *)
(*                                                                         *)
(***************************************************************************)

\* Mapping.get(key): None (null) when the key is absent.
Get(j, key) == IF key \in DOMAIN j.m THEN j.m[key] ELSE JNull

\* Python truthiness of a parsed value.
PyTruthy(j) ==
    CASE j.t = "null" -> FALSE
      [] j.t = "bool" -> j.b
      [] j.t = "num" -> j.n # 0
      [] j.t = "str" -> j.s # <<>>
      [] j.t = "list" -> j.items # <<>>
      [] j.t = "map" -> DOMAIN j.m # {}

ValueError(m) == Exc("ValueError", m)
Ok(v) == [ok |-> TRUE, val |-> v, exc |-> NoExc]
Err(e) == [ok |-> FALSE, val |-> None, exc |-> e]

\* optional_str(key) of BrowserAction.from_dict
optional_str(data, key) ==
    LET value == Get(data, key) IN
    IF value.t = "null" THEN Ok(None)
    ELSE IF value.t # "str" THEN Err(ValueError(<<key, "must be a string when provided">>))
    ELSE Ok(value.s)

\* The first failure among the results rs, in order.
FirstErr(rs) == rs[CHOOSE k \in 1..Len(rs) : ~rs[k].ok /\ \A j \in 1..(k - 1) : rs[j].ok]

\* BrowserAction.from_dict(data), data a mapping.
from_dict(data) ==
    IF "name" \notin DOMAIN data.m
        THEN Err(ValueError(<<"Action definition requires a 'name'">>))
    ELSE LET name == data.m["name"]
             options == Get(data, "options")
             strs == <<optional_str(data, "selector"), optional_str(data, "text"),
                       optional_str(data, "url"), optional_str(data, "path")>>
         IN IF ~(name.t = "str" /\ Len(name.s) = 1 /\ name.s[1] \in SUPPORTED_ACTIONS)
                THEN Err(ValueError(<<"Unsupported action name">>))
            ELSE IF options.t # "null" /\ options.t # "map"
                THEN Err(ValueError(<<"'options' must be a mapping when provided">>))
            ELSE IF \E k \in 1..4 : ~strs[k].ok THEN FirstErr(strs)
            ELSE Ok(BrowserAction(name.s[1], strs[1].val, strs[2].val, strs[3].val,
                                  strs[4].val,
                                  options))

\* _ensure_mapping(raw_action) followed by BrowserAction.from_dict
LoadAction(raw, index) ==
    IF raw.t # "map" THEN Err(ValueError(<<"Expected a mapping for action", ToString(index)>>))
    ELSE from_dict(raw)

NoConfig == [loaded |-> FALSE, actions |-> <<>>, base_url |-> None, settings |-> EmptyDict]

\* load_config up to its for loop (lines 42-61): file is [kind, root]; kind
\* "unreadable" makes read_text raise OSError, kind "notjson" makes json.loads
\* raise JSONDecodeError.  Gives the entries of "actions", base_url and settings.
LoadHeader(file) ==
    IF file.kind = "unreadable" THEN Err(Exc("OSError", <<"No such file">>))
    ELSE IF file.kind = "notjson" THEN Err(Exc("JSONDecodeError", <<"Expecting value">>))
    ELSE LET raw == file.root IN
        IF raw.t # "map" THEN Err(ValueError(<<"Expected a mapping for config root">>))
        ELSE LET base == Get(raw, "base_url")
                 raw_settings == Get(raw, "settings")
                 raw_actions == Get(raw, "actions")
             IN IF base.t # "null" /\ base.t # "str"
                    THEN Err(ValueError(<<"'base_url' must be a string when provided">>))
                ELSE IF raw_settings.t # "null" /\ raw_settings.t # "map"
                    THEN Err(ValueError(<<"Expected a mapping for settings section">>))
                ELSE IF raw_actions.t = "null"
                    THEN Err(ValueError(<<"Config must define an 'actions' array">>))
                ELSE IF raw_actions.t # "list"
                    THEN Err(ValueError(<<"Expected a sequence for actions">>))
                ELSE Ok([items |-> raw_actions.items,
                         base_url |-> IF base.t = "null" THEN None ELSE base.s,
                         settings |-> IF raw_settings.t = "null" THEN EmptyDict
                                      ELSE raw_settings.m])

\* AutomationConfig(actions=actions, base_url=base_url, settings=settings)
AutomationConfig(acts, base, st) ==
    [loaded |-> TRUE, actions |-> acts, base_url |-> base, settings |-> st]

\* load_config(path)
load_config(file) ==
    LET h == LoadHeader(file) IN
    IF ~h.ok THEN h
    ELSE LET loaded == [k \in 1..Len(h.val.items) |-> LoadAction(h.val.items[k], k - 1)]
         IN IF \E k \in 1..Len(loaded) : ~loaded[k].ok THEN FirstErr(loaded)
            ELSE Ok(AutomationConfig([k \in 1..Len(loaded) |-> loaded[k].val],
                                     h.val.base_url, h.val.settings))

\* The exception classes of an exception type, itself included.
Classes(t) ==
    CASE t = "JSONDecodeError" -> {"JSONDecodeError", "ValueError", "Exception"}
      [] t = "FileNotFoundError" -> {"FileNotFoundError", "OSError", "Exception"}
      [] OTHER -> {t, "Exception"}

\* The except clause without OSError: "except ValueError".
LoadErrorCaught_ValueError_only(e) == "ValueError" \in Classes(e.type)

\* except (OSError, ValueError) of run_from_config
LoadErrorCaught(e) == Classes(e.type) \cap {"OSError", "ValueError"} # {}

\* The line with the detail always appended: f"- {name}: {status} ({detail})".
FormatLine_always_detail(a) ==
    <<"- ", a.name, ": ", IF a.success THEN "ok" ELSE "FAILED">>
        \o <<" (">> \o a.detail \o <<")">>

\* _format_result: one line per recorded outcome.
FormatLine(a) ==
    <<"- ", a.name, ": ", IF a.success THEN "ok" ELSE "FAILED">>
        \o (IF Truthy(a.detail) THEN <<" (">> \o a.detail \o <<")">> ELSE <<>>)

_format_result(res) == [k \in 1..Len(res) |-> FormatLine(res[k])]

\* return 0 if result.successful else 1
ExitStatus(res) == IF successful(res) THEN 0 ELSE 1

\* The keyword parameters of BrowserAutomation.__init__.
InitParams ==
    {"browser_type", "headless", "launch_options", "context_options", "stop_on_failure",
     "playwright_factory"}

\* The except clause without its return: control falls through to the factory.
AfterLoadFails_falls_through == "factory"

\* Where control goes after the except clause of run_from_config: return 2.
AfterLoadFails == "done"

\* try: config = load_config(path) except (OSError, ValueError): ... return 2
CliLoad ==
    /\ pc = "cli"
    /\ LET r == load_config(doc) IN
        IF r.ok
            THEN /\ config' = r.val
                 /\ pc' = "factory"
                 /\ UNCHANGED <<stderr, exit_code, exc>>
            ELSE IF LoadErrorCaught(r.exc)
                THEN /\ stderr' = Append(stderr,
                                      <<"Failed to load automation config: ">> \o r.exc.msg)
                     /\ exit_code' = {2}
                     /\ pc' = AfterLoadFails
                     /\ UNCHANGED <<config, exc>>
                ELSE /\ exc' = r.exc
                     /\ pc' = "raised"
                     /\ UNCHANGED <<config, stderr, exit_code>>
    /\ UNCHANGED <<entry, actions, base_url, browser_type, stop_on_failure, executed, idx,
                   events, result, doc, factory_calls, stdout, ab_vars, ext_vars>>

\* automation = automation_factory(** config.settings), then the call of
\* automation.run(config.actions, base_url=config.base_url)
CliFactory ==
    /\ pc = "factory"
    /\ factory_calls' = factory_calls + 1
    /\ LET st == config.settings IN
        IF DOMAIN st \subseteq InitParams
            THEN /\ browser_type' = IF "browser_type" \in DOMAIN st
                                    THEN st["browser_type"].s[1] ELSE "chromium"
                 /\ stop_on_failure' = IF "stop_on_failure" \in DOMAIN st
                                       THEN PyTruthy(st["stop_on_failure"]) ELSE TRUE
                 /\ actions' = config.actions
                 /\ base_url' = config.base_url
                 /\ pc' = "run"
                 /\ exc' = exc
            ELSE /\ exc' = Exc("TypeError", <<"unexpected keyword argument">>)
                 /\ pc' = "raised"
                 /\ UNCHANGED <<browser_type, stop_on_failure, actions, base_url>>
    /\ UNCHANGED <<entry, executed, idx, events, result, doc, config, exit_code, stdout,
                   stderr, ab_vars, ext_vars>>

\* stdout.write(...); return 0 if result.successful else 1
CliReport ==
    /\ pc = "returned"
    /\ entry = "cli"
    /\ stdout' = stdout \o <<<<"Ran ", ToString(Len(config.actions)), " actions">>>>
                        \o _format_result(result.actions)
    /\ exit_code' = {ExitStatus(result.actions)}
    /\ pc' = "done"
    /\ UNCHANGED <<entry, actions, base_url, browser_type, stop_on_failure, executed, idx,
                   events, exc, result, doc, config, factory_calls, stderr, ab_vars,
                   ext_vars>>

CliNext ==
    \/ CliLoad
    \/ CliFactory
    \/ RunNext
    \/ CliReport

(***************************************************************************)
(* Configuration files given to run_from_config.                           *)
(***************************************************************************)
Name(n) == JStr(<<n>>)

RawActionPool ==
    { JMap([name |-> Name("goto"), url |-> JStr(Url)]),
      JMap([name |-> Name("goto"), path |-> JStr(Dash)]),
      JMap([name |-> Name("click"), selector |-> JStr(Sel)]),
      JMap([name |-> Name("click")]),
      JMap([name |-> Name("screenshot"), path |-> JStr(Png),
            options |-> JMap([full_page |-> JBool(TRUE)])]),
      JMap([name |-> Name("hover"), selector |-> JStr(Sel)]),
      JMap([selector |-> JStr(Sel)]),
      JMap([name |-> Name("click"), selector |-> JNum(5)]),
      JMap([name |-> Name("goto"), url |-> JStr(Url), options |-> JStr(Sel)]),
      JStr(Sel) }

SettingsPool ==
    { EmptyMap,
      JMap([stop_on_failure |-> JBool(FALSE)]),
      JMap([browser_type |-> Name("netscape")]),
      JMap([headless |-> JBool(TRUE), verbose |-> JBool(TRUE)]) }

\* A root mapping with the given actions, and settings / base_url when present.
Root(acts, st, base) ==
    JMap([k \in {"actions"} \cup (IF st = JNull THEN {} ELSE {"settings"})
                            \cup (IF base = JNull THEN {} ELSE {"base_url"}) |->
            CASE k = "actions" -> acts
              [] k = "settings" -> st
              [] k = "base_url" -> base])

DocPool ==
    { [kind |-> "unreadable", root |-> JNull], [kind |-> "notjson", root |-> JNull] }
    \cup { [kind |-> "json", root |-> r] :
            r \in { JList(<<>>), EmptyMap, JMap([actions |-> JNull]),
                    JMap([actions |-> JStr(Sel)]), JMap([steps |-> JList(<<>>)]),
                    Root(JList(<<>>), JList(<<>>), JNull),
                    Root(JList(<<>>), JNull, JNum(1)),
                    JMap([actions |-> JList(<<>>), settings |-> JNull,
                          base_url |-> JNull]),
                    JMap([actions |-> JList(<<JMap([name |-> JNum(5)])>>)]) } }
    \cup { [kind |-> "json", root |-> Root(JList(acts), st, base)] :
            acts \in SeqUpTo(RawActionPool, MaxActions),
            st \in SettingsPool \cup {JNull},
            base \in {JNull, JStr(Base)} }

\* run_from_config(path, stdout=..., stderr=...)
InitCli ==
    /\ pc = "cli"
    /\ entry = "cli"
    /\ doc \in DocPool
    /\ actions = <<>>
    /\ base_url = None
    /\ browser_type = "chromium"
    /\ stop_on_failure = TRUE
    /\ RunFresh
    /\ config = NoConfig
    /\ factory_calls = 0
    /\ exit_code = {}
    /\ stdout = <<>>
    /\ stderr = <<>>
    /\ AbIdle
    /\ ExtIdle

SpecCli == InitCli /\ [][CliNext]_vars

(***************************************************************************)
(* playwright_autobot.py: configuration.                                   *)
(*                                                                         *)
(* Neither Step nor BotConfig.from_dict checks a type, so the fields of a  *)
(* Step and start_url hold whatever JSON value the document gave them      *)
(* (JNull for None).                                                       *)
(***************************************************************************)
DefaultTimeout == 15000
DefaultRetries == 2

TypeError(m) == Exc("TypeError", m)

StepFields ==
    {"action", "selector", "value", "url", "timeout", "retries", "wait_until", "path",
     "full_page", "seconds"}

\* Step(** s): the dataclass constructor called with the keys of s
MakeStep(s) ==
    IF s.t # "map" THEN Err(TypeError(<<"argument after ** must be a mapping">>))
    ELSE IF ~(DOMAIN s.m \subseteq StepFields)
        THEN Err(TypeError(<<"got an unexpected keyword argument">>))
    ELSE IF "action" \notin DOMAIN s.m
        THEN Err(TypeError(<<"missing 1 required positional argument: 'action'">>))
    ELSE Ok([f \in StepFields |-> Get(s, f)])

\* What "for s in d.get('steps', [])" iterates over, or the TypeError it raises.
StepItems(d) ==
    LET v == IF "steps" \in DOMAIN d.m THEN d.m["steps"] ELSE JList(<<>>) IN
    CASE v.t = "list" -> Ok(v.items)
      [] v.t = "str" -> Ok([k \in 1..Len(v.s) |-> JStr(<<v.s[k]>>)])
      [] v.t = "map" /\ DOMAIN v.m = {} -> Ok(<<>>)
      [] v.t = "map" /\ DOMAIN v.m # {} -> Ok(<<JStr(<<"key">>)>>)
      [] OTHER -> Err(TypeError(<<"object is not iterable">>))

\* int(x)
IntOf(j) ==
    CASE j.t = "num" -> Ok(j.n)
      [] j.t = "bool" -> Ok(IF j.b THEN 1 ELSE 0)
      [] j.t = "str" -> Err(ValueError(<<"invalid literal for int()">>))
      [] OTHER -> Err(TypeError(<<"int() argument must be a string or a number">>))

\* str.lower() on the tokens of this model.
LowerTok(t) ==
    CASE t = "Click" -> "click"
      [] t = "GOTO" -> "goto"
      [] t = "Firefox" -> "firefox"
      [] t = "Netscape" -> "netscape"
      [] t = "TRUE" -> "true"
      [] OTHER -> t

lower(s) == [k \in 1..Len(s) |-> LowerTok(s[k])]

RECURSIVE strip(_)
\* str.strip(); " " is a token of its own
strip(s) ==
    IF s # <<>> /\ s[1] = " " THEN strip(Tail(s))
    ELSE IF s # <<>> /\ s[Len(s)] = " " THEN strip(SubSeq(s, 1, Len(s) - 1))
    ELSE s

\* str(x) for a value of the document
StrOf(j) ==
    CASE j.t = "str" -> j.s
      [] j.t = "null" -> <<"None">>
      [] j.t = "bool" -> IF j.b THEN <<"True">> ELSE <<"False">>
      [] j.t = "num" -> <<ToString(j.n)>>
      [] OTHER -> <<"<repr>">>

\* d.get(key, default)
GetOr(d, key, default) == IF key \in DOMAIN d.m THEN d.m[key] ELSE default

\* BotConfig.from_dict(d)
BotConfig_from_dict(d) ==
    IF d.t # "map" THEN Err(Exc("AttributeError", <<"object has no attribute 'get'">>))
    ELSE LET items == StepItems(d) IN
        IF ~items.ok THEN items
        ELSE LET made == [k \in 1..Len(items.val) |-> MakeStep(items.val[k])]
                 timeout == IntOf(GetOr(d, "default_timeout", JNum(DefaultTimeout)))
                 retries == IntOf(GetOr(d, "step_default_retries", JNum(DefaultRetries)))
             IN IF \E k \in 1..Len(made) : ~made[k].ok THEN FirstErr(made)
                ELSE IF ~timeout.ok THEN timeout
                ELSE IF ~retries.ok THEN retries
                ELSE Ok([start_url |-> Get(d, "start_url"),
                         steps |-> [k \in 1..Len(made) |-> made[k].val],
                         profile |-> GetOr(d, "profile", JStr(<<"./pw_profile">>)),
                         headless |-> PyTruthy(GetOr(d, "headless", JBool(FALSE))),
                         browser |-> lower(StrOf(GetOr(d, "browser", JStr(<<"chromium">>)))),
                         default_timeout |-> timeout.val,
                         step_default_retries |-> retries.val])

\* load_json_or_jsonc(path): kind "unreadable" makes read_text raise OSError,
\* kind "malformed" is a text that json.loads rejects after the comments are
\* stripped; otherwise root is what the stripped text parses to.
load_json_or_jsonc(file) ==
    IF file.kind = "unreadable" THEN Err(Exc("OSError", <<"No such file">>))
    ELSE IF file.kind = "malformed" THEN Err(Exc("JSONDecodeError", <<"Expecting value">>))
    ELSE [ok |-> TRUE, val |-> file.root, exc |-> NoExc]

str2bool(v) == lower(StrOf(v)) \in {<<"1">>, <<"true">>, <<"yes">>, <<"y">>, <<"on">>}

\* The overrides of main: "if args.profile: ...", "if args.headless is not None: ...",
\* "if args.browser: ...", "if args.timeout: ...", "if args.retries is not None: ..."
ApplyOverrides(cfg, args) ==
    [cfg EXCEPT
        !.profile = IF args.profile.t # "null" THEN args.profile ELSE @,
        !.headless = IF args.headless.t # "null" THEN str2bool(args.headless) ELSE @,
        !.browser = IF PyTruthy(args.browser) THEN lower(args.browser.s) ELSE @,
        !.default_timeout = IF PyTruthy(args.timeout) THEN args.timeout.n ELSE @,
        !.step_default_retries = IF args.retries.t # "null" THEN args.retries.n ELSE @]

(***************************************************************************)
(* playwright_autobot.py: AutoBot.run and main, one action per call on the *)
(* playwright objects and per attempt of a step.                           *)
(***************************************************************************)
AbEv(k, step, att, o, tmo, e) ==
    [kind |-> k, step |-> step, attempt |-> att, op |-> o, timeout |-> tmo, err |-> e]

AbMark(k) == AbEv(k, 0, 0, "", {}, NoExc)

\* AutoBot._get_browser_type
SupportedBrowser(b) == b \in {<<"chromium">>, <<"firefox">>, <<"webkit">>}

\* action = (st.action or "").lower().strip()
NormalizedAction(st) == strip(lower(IF PyTruthy(st.action) THEN st.action.s ELSE <<>>))

\* retries = st.retries if st.retries is not None else self.cfg.step_default_retries
EffectiveRetries(st, cfg) ==
    IF st.retries.t # "null" THEN st.retries.n ELSE cfg.step_default_retries

\* step.timeout or self.cfg.default_timeout
EffectiveTimeout(st, cfg) == IF PyTruthy(st.timeout) THEN st.timeout.n ELSE cfg.default_timeout

Max(a, b) == IF a >= b THEN a ELSE b

\* The except branches without the test: a failed attempt is always repeated.
Exhausted_never(attempt, retries) == FALSE

\* if attempt > max(1, retries): raise
Exhausted(attempt, retries) == attempt > Max(1, retries)

AbRaises(m) == [raises |-> TRUE, exc |-> ValueError(m), op |-> "", page |-> FALSE, timeout |-> {}]
AbCalls(o, tmo) == [raises |-> FALSE, exc |-> NoExc, op |-> o, page |-> TRUE, timeout |-> tmo]
AbSleeps == [raises |-> FALSE, exc |-> NoExc, op |-> "sleep", page |-> FALSE, timeout |-> {}]

_do_goto(st, cfg) ==
    IF ~PyTruthy(st.url) THEN AbRaises(<<"goto requires 'url'">>)
    ELSE AbCalls("goto", {})

_do_wait(st, cfg) ==
    IF ~PyTruthy(st.selector) THEN AbRaises(<<"wait action requires 'selector'">>)
    ELSE AbCalls("wait_for_selector", {EffectiveTimeout(st, cfg)})

_do_click(st, cfg) ==
    IF ~PyTruthy(st.selector) THEN AbRaises(<<"click action requires 'selector'">>)
    ELSE AbCalls("click", {EffectiveTimeout(st, cfg)})

_do_fill(st, cfg) ==
    IF ~PyTruthy(st.selector) THEN AbRaises(<<"fill action requires 'selector'">>)
    ELSE AbCalls("fill", {EffectiveTimeout(st, cfg)})

_do_press(st, cfg) ==
    IF ~PyTruthy(st.selector) \/ ~PyTruthy(st.value)
        THEN AbRaises(<<"press action requires 'selector' and 'value' (key)">>)
    ELSE AbCalls("press", {EffectiveTimeout(st, cfg)})

\* path = step.path or "screenshot.png"
ScreenshotPath(st) == IF PyTruthy(st.path) THEN st.path.s ELSE <<"screenshot.png">>

\* _do_screenshot raises nothing of its own: it calls page.screenshot(path=path, ...)
_do_screenshot(st, cfg) == AbCalls("screenshot", {})

_do_sleep(st, cfg) == AbSleeps

\* The chain without its final else: an unknown action does nothing.
Dispatch_without_else(st, cfg) ==
    LET action == NormalizedAction(st) IN
    CASE action = <<"goto">> -> _do_goto(st, cfg)
      [] action = <<"wait">> -> _do_wait(st, cfg)
      [] action = <<"click">> -> _do_click(st, cfg)
      [] action = <<"fill">> -> _do_fill(st, cfg)
      [] action = <<"press">> -> _do_press(st, cfg)
      [] action = <<"screenshot">> -> _do_screenshot(st, cfg)
      [] action = <<"sleep">> -> _do_sleep(st, cfg)
      [] OTHER -> [raises |-> FALSE, exc |-> NoExc, op |-> "", page |-> FALSE,
                   timeout |-> {}]

\* The if/elif chain of the try block.
Dispatch(st, cfg) ==
    LET action == NormalizedAction(st) IN
    CASE action = <<"goto">> -> _do_goto(st, cfg)
      [] action = <<"wait">> -> _do_wait(st, cfg)
      [] action = <<"click">> -> _do_click(st, cfg)
      [] action = <<"fill">> -> _do_fill(st, cfg)
      [] action = <<"press">> -> _do_press(st, cfg)
      [] action = <<"screenshot">> -> _do_screenshot(st, cfg)
      [] action = <<"sleep">> -> _do_sleep(st, cfg)
      [] OTHER -> AbRaises(<<"Unknown action">>)

\* except Exception of main
MainCatches(e) == "Exception" \in Classes(e.type)

\* raw = load_json_or_jsonc(args.config); cfg = BotConfig.from_dict(raw); overrides
AbMain ==
    /\ ab_pc = "main"
    /\ LET raw == load_json_or_jsonc(ab_file)
           cfg == IF raw.ok THEN BotConfig_from_dict(raw.val) ELSE raw
       IN IF cfg.ok
            THEN /\ ab_cfg' = ApplyOverrides(cfg.val, ab_args)
                 /\ ab_pc' = "run"
                 /\ ab_exc' = ab_exc
            ELSE /\ ab_cfg' = ab_cfg
                 /\ ab_pc' = "main_raised"
                 /\ ab_exc' = cfg.exc
    /\ UNCHANGED <<ab_file, ab_args, ab_context, ab_i, ab_attempt, ab_events, ab_rc,
                   ab_status, bridge_vars, ext_vars>>

\* bot = AutoBot(cfg); bot.run(): with sync_playwright() as p:
AbEnter ==
    /\ ab_pc = "run"
    /\ \E fails \in BOOLEAN :
        IF fails
            THEN /\ ab_exc' = SessionErr
                 /\ ab_pc' = "run_raised"
                 /\ ab_events' = ab_events
            ELSE /\ ab_exc' = ab_exc
                 /\ ab_pc' = "launch"
                 /\ ab_events' = Append(ab_events, AbMark("playwright.enter"))
    /\ UNCHANGED <<ab_file, ab_args, ab_cfg, ab_context, ab_i, ab_attempt, ab_rc,
                   ab_status, bridge_vars, ext_vars>>

\* self._launch(p): browser type, launch_persistent_context, set_default_timeout,
\* page.  "launch" fails before a context exists, "setup" after it was launched.
AbLaunch ==
    /\ ab_pc = "launch"
    /\ IF ~SupportedBrowser(ab_cfg.browser)
        THEN /\ ab_exc' = ValueError(<<"Unsupported browser type">>)
             /\ ab_pc' = "unwind"
             /\ UNCHANGED <<ab_context, ab_events>>
        ELSE \E out \in {"launch", "setup", "ok"} :
            CASE out = "launch" ->
                    /\ ab_exc' = SessionErr
                    /\ ab_pc' = "unwind"
                    /\ UNCHANGED <<ab_context, ab_events>>
              [] out = "setup" ->
                    /\ ab_exc' = SessionErr
                    /\ ab_pc' = "unwind"
                    /\ ab_context' = "open"
                    /\ ab_events' = Append(ab_events, AbMark("launch_persistent_context"))
              [] out = "ok" ->
                    /\ ab_exc' = ab_exc
                    /\ ab_pc' = "start_url"
                    /\ ab_context' = "open"
                    /\ ab_events' = ab_events \o
                        <<AbMark("launch_persistent_context"),
                          AbEv("set_default_timeout", 0, 0, "", {ab_cfg.default_timeout},
                               NoExc)>>
    /\ UNCHANGED <<ab_file, ab_args, ab_cfg, ab_i, ab_attempt, ab_rc, ab_status,
                   bridge_vars, ext_vars>>

\* The navigation wrapped in "try: ... except Exception: pass".
AfterStartUrl_continues(out) == "steps"

\* self.page.goto(self.cfg.start_url, ...) is outside the try of the steps:
\* what it raises leaves run.
AfterStartUrl(out) == IF out = NoExc THEN "steps" ELSE "unwind"

\* if self.cfg.start_url: self.page.goto(self.cfg.start_url, ...)
AbStartUrl ==
    /\ ab_pc = "start_url"
    /\ IF PyTruthy(ab_cfg.start_url)
        THEN \E out \in PageOutcomes :
            /\ ab_events' = Append(ab_events, AbEv("page", 0, 0, "goto", {}, out))
            /\ ab_exc' = out
            /\ ab_pc' = AfterStartUrl(out)
        ELSE /\ ab_pc' = "steps"
             /\ UNCHANGED <<ab_events, ab_exc>>
    /\ UNCHANGED <<ab_file, ab_args, ab_cfg, ab_context, ab_i, ab_attempt, ab_rc,
                   ab_status, bridge_vars, ext_vars>>

\* for i, st in enumerate(self.cfg.steps, start=1): action = ...; retries = ...;
\* attempt = 0  (a truthy action that is no string has no lower())
AbNextStep ==
    /\ ab_pc = "steps"
    /\ IF ab_i < Len(ab_cfg.steps)
        THEN LET st == ab_cfg.steps[ab_i + 1] IN
            /\ ab_i' = ab_i + 1
            /\ ab_attempt' = 0
            /\ IF PyTruthy(st.action) /\ st.action.t # "str"
                THEN /\ ab_exc' = Exc("AttributeError", <<"object has no attribute 'lower'">>)
                     /\ ab_pc' = "unwind"
                ELSE /\ ab_exc' = ab_exc
                     /\ ab_pc' = "attempt"
        ELSE /\ ab_pc' = "finish"
             /\ UNCHANGED <<ab_i, ab_attempt, ab_exc>>
    /\ UNCHANGED <<ab_file, ab_args, ab_cfg, ab_context, ab_events, ab_rc, ab_status,
                   bridge_vars, ext_vars>>

\* The loop with "except PWTimeout" alone: any other error leaves it at once.
LoopCatches_timeout_only(e) == e.type = "TimeoutError"

\* except PWTimeout ... except Exception: both branches end the same way, so
\* every Exception raised by an attempt is counted and retried.
LoopCatches(e) == "Exception" \in Classes(e.type)

\* The except branches without their last statement: the next attempt follows
\* at once.
Backoff_none(i, n) == <<>>

\* time.sleep(0.2) of the except branches, reached when the attempt failed and
\* was not the last.
Backoff(i, n) == <<AbEv("backoff", i, n, "sleep", {}, NoExc)>>

\* One pass of "while True": attempt += 1, the action, then break, or
\* raise when the attempts are exhausted, or time.sleep(0.2).
AbAttempt ==
    /\ ab_pc = "attempt"
    /\ LET st == ab_cfg.steps[ab_i]
           n == ab_attempt + 1
           plan == Dispatch(st, ab_cfg)
       IN \E out \in IF plan.page THEN PageOutcomes ELSE {NoExc} :
           LET err == IF plan.raises THEN plan.exc ELSE out
               done == AbEv(IF plan.page THEN "page" ELSE "local", ab_i, n, plan.op,
                            plan.timeout, err)
           IN /\ ab_attempt' = n
              /\ IF err = NoExc
                    THEN /\ ab_events' = Append(ab_events, done)
                         /\ ab_exc' = ab_exc
                         /\ ab_pc' = "steps"
                    ELSE IF ~LoopCatches(err) \/ Exhausted(n, EffectiveRetries(st, ab_cfg))
                        THEN /\ ab_events' = Append(ab_events, done)
                             /\ ab_exc' = err
                             /\ ab_pc' = "unwind"
                        ELSE /\ ab_events' = ab_events \o <<done>> \o Backoff(ab_i, n)
                             /\ ab_exc' = ab_exc
                             /\ ab_pc' = "attempt"
    /\ UNCHANGED <<ab_file, ab_args, ab_cfg, ab_context, ab_i, ab_rc, ab_status,
                   bridge_vars, ext_vars>>

\* After the loop: time.sleep(5) when not headless; self.context.close(); return 0
AbFinish ==
    /\ ab_pc = "finish"
    /\ \E fails \in BOOLEAN :
        /\ ab_events' = ab_events
                \o (IF ab_cfg.headless THEN <<>> ELSE <<AbMark("inspect_sleep")>>)
                \o <<AbMark("context.close")>>
        /\ ab_context' = "closed"
        /\ ab_exc' = IF fails THEN SessionErr ELSE ab_exc
        /\ ab_pc' = "unwind"
    /\ UNCHANGED <<ab_file, ab_args, ab_cfg, ab_i, ab_attempt, ab_rc, ab_status,
                   bridge_vars, ext_vars>>

\* The with block of run is left, by return 0 or by the propagating exception.
AbExit ==
    /\ ab_pc = "unwind"
    /\ ab_events' = Append(ab_events, AbMark("playwright.exit"))
    /\ ab_pc' = IF ab_exc = NoExc THEN "run_returned" ELSE "run_raised"
    /\ UNCHANGED <<ab_file, ab_args, ab_cfg, ab_context, ab_i, ab_attempt, ab_exc, ab_rc,
                   ab_status, bridge_vars, ext_vars>>

\* main: return bot.run()
AbMainReturn ==
    /\ ab_pc = "run_returned"
    /\ ab_rc' = {0}
    /\ ab_pc' = "main_returned"
    /\ UNCHANGED <<ab_file, ab_args, ab_cfg, ab_context, ab_i, ab_attempt, ab_events,
                   ab_exc, ab_status, bridge_vars, ext_vars>>

\* main: except Exception as e: log(...); return 1
AbMainExcept ==
    /\ ab_pc = "run_raised"
    /\ IF MainCatches(ab_exc)
        THEN /\ ab_rc' = {1}
             /\ ab_pc' = "main_returned"
        ELSE /\ ab_rc' = ab_rc
             /\ ab_pc' = "main_raised"
    /\ UNCHANGED <<ab_file, ab_args, ab_cfg, ab_context, ab_i, ab_attempt, ab_events,
                   ab_exc, ab_status, bridge_vars, ext_vars>>

\* sys.exit(main()): main's return value is the exit status; an exception
\* that leaves main ends the interpreter with a traceback and status 1.
AbSysExit ==
    /\ ab_pc \in {"main_returned", "main_raised"}
    /\ ab_status' = IF ab_pc = "main_returned" THEN ab_rc ELSE {1}
    /\ ab_pc' = "exited"
    /\ UNCHANGED <<ab_file, ab_args, ab_cfg, ab_context, ab_i, ab_attempt, ab_events,
                   ab_exc, ab_rc, bridge_vars, ext_vars>>

AbNext ==
    \/ AbMain
    \/ AbEnter
    \/ AbLaunch
    \/ AbStartUrl
    \/ AbNextStep
    \/ AbAttempt
    \/ AbFinish
    \/ AbExit
    \/ AbMainReturn
    \/ AbMainExcept
    \/ AbSysExit

(***************************************************************************)
(* Configuration files and command lines given to playwright_autobot.      *)
(***************************************************************************)
RawStepPool ==
    { JMap([action |-> Name("goto"), url |-> JStr(Url), timeout |-> JNum(70)]),
      JMap([action |-> Name("goto"), retries |-> JNum(0)]),
      JMap([action |-> JStr(<<"Click", " ">>), selector |-> JStr(Sel),
            retries |-> JNum(MaxRetries), timeout |-> JNum(0)]),
      JMap([action |-> Name("sleep")]),
      JMap([action |-> Name("hover"), retries |-> JNum(-1)]) }

BotOptionsPool ==
    { EmptyDict,
      [start_url |-> JStr(Url), headless |-> JBool(TRUE), step_default_retries |-> JNum(0)],
      [browser |-> Name("Netscape")],
      [browser |-> Name("Firefox"), default_timeout |-> JNum(500),
       step_default_retries |-> JNum(MaxRetries)] }

\* A root mapping: the options, and the steps under "steps".
BotRoot(opts, steps) ==
    JMap([k \in DOMAIN opts \cup {"steps"} |-> IF k = "steps" THEN steps ELSE opts[k]])

AbDocPool ==
    { [kind |-> "unreadable", root |-> JNull], [kind |-> "malformed", root |-> JNull] }
    \cup { [kind |-> "json", root |-> r] :
            r \in { JList(<<>>), EmptyMap, JMap([steps |-> JNull]),
                    JMap([default_timeout |-> JNull]),
                    JMap([steps |-> JList(<<JMap([selector |-> JStr(Sel)])>>)]),
                    JMap([steps |-> JList(<<JMap([action |-> Name("click"),
                                                  colour |-> Name("red")])>>)]) } }
    \cup { [kind |-> "json", root |-> BotRoot(opts, JList(steps))] :
            opts \in BotOptionsPool, steps \in SeqUpTo(RawStepPool, MaxSteps) }

ArgsPool ==
    { NoArgs,
      [profile |-> JStr(<<"./p">>), headless |-> JStr(<<"1">>),
       browser |-> JStr(<<"webkit">>), timeout |-> JNum(0), retries |-> JNum(0)],
      [profile |-> JNull, headless |-> JStr(<<"no">>), browser |-> JNull,
       timeout |-> JNum(100), retries |-> JNull] }

\* python playwright_autobot.py --config FILE [overrides]
InitAutoBot ==
    /\ ab_pc = "main"
    /\ ab_file \in AbDocPool
    /\ ab_args \in ArgsPool
    /\ ab_cfg = NoBotConfig
    /\ ab_context = "none"
    /\ ab_i = 0
    /\ ab_attempt = 0
    /\ ab_events = <<>>
    /\ ab_exc = NoExc
    /\ ab_rc = {}
    /\ ab_status = {}
    /\ pc = "idle"
    /\ entry = "api"
    /\ actions = <<>>
    /\ base_url = None
    /\ browser_type = "chromium"
    /\ stop_on_failure = TRUE
    /\ RunFresh
    /\ BridgeIdle
    /\ ExtIdle

SpecAutoBot == InitAutoBot /\ [][AbNext]_vars

(***************************************************************************)
(* Properties of BrowserAutomation.run (specification SpecRun).            *)
(***************************************************************************)
Has(evs, k) == \E n \in 1..Len(evs) : evs[n].kind = k
CountOf(evs, k) == Cardinality({n \in 1..Len(evs) : evs[n].kind = k})
PageIdx(evs) == {n \in 1..Len(evs) : evs[n].kind = "page"}
Failed(res) == {k \in 1..Len(res) : ~res[k].success}

\* C1: the report run returns holds as many outcomes as there are actions, or,
\* when the run was aborted under stop_on_failure, as many as the 1-based index
\* of the first failed action (the failed outcome is then the last one).
C1_OutcomeCount ==
    result.returned =>
        LET n == Len(result.actions)
            f == Failed(result.actions)
        IN IF stop_on_failure /\ f # {} THEN f = {n} ELSE n = Len(actions)

\* An aborted run: the report is shorter than the action list.
C1_Witness ==
    /\ result.returned
    /\ stop_on_failure
    /\ Len(result.actions) = 1
    /\ Len(actions) = 2

\* C2: when run has returned or raised after a successful launch, browser.close()
\* has been called, and context.close() has been called if a context was created.
C2_SessionReleased ==
    (pc \in {"returned", "raised"} /\ Has(events, "launch")) =>
        /\ Has(events, "browser.close")
        /\ Has(events, "new_context") => Has(events, "context.close")

\* new_page raised: the exception propagates after both closes.
C2_Witness ==
    /\ pc = "raised"
    /\ Has(events, "new_context")
    /\ ~Has(events, "new_page")
    /\ Has(events, "context.close")
    /\ Has(events, "browser.close")

\* C5: under stop_on_failure, a failed outcome is the last thing the loop does:
\* no further action is consumed, no outcome follows it and no page call of a
\* later action is issued.
C5_NoActionAfterFailure ==
    stop_on_failure =>
        \A k \in Failed(executed) :
            /\ Len(executed) = k
            /\ idx = k
            /\ \A n \in PageIdx(events) : events[n].idx <= k

\* The first of two actions fails on the page; the second, which would have
\* reached the page, is never tried.
C5_Witness ==
    /\ stop_on_failure
    /\ pc = "returned"
    /\ Len(actions) = 2
    /\ Failed(executed) = {1}
    /\ ReachesPage(actions[2], base_url)
    /\ \E n \in PageIdx(events) : events[n].idx = 1

\* C6: the i-th outcome carries the name of the i-th action; page calls are
\* issued in the order of their actions, each by the handler of its action; and
\* without stop_on_failure every action is attempted, whatever failed before.
C6_OrderPreserved ==
    /\ \A k \in 1..Len(executed) : executed[k].name = actions[k].name
    /\ \A m, n \in PageIdx(events) : m < n => events[m].idx < events[n].idx
    /\ \A n \in PageIdx(events) : events[n].op = actions[events[n].idx].name
    /\ (~stop_on_failure /\ pc = "returned") =>
        /\ Len(executed) = Len(actions)
        /\ \A i \in 1..Len(actions) :
            ReachesPage(actions[i], base_url) =>
                \E n \in PageIdx(events) : events[n].idx = i

\* Two different actions, the first failing on the page, the second succeeding.
C6_Witness ==
    /\ ~stop_on_failure
    /\ pc = "returned"
    /\ Len(actions) = 2
    /\ actions[1].name # actions[2].name
    /\ Failed(executed) = {1}
    /\ CountOf(events, "page") = 2

\* C7: _execute_action returns an outcome for every action it is given and lets
\* no exception through: an unknown name or a missing field gives a failed
\* outcome with a non-empty detail, an error raised by the page call gives a
\* failed outcome whose detail is the error's text, and every failed outcome
\* has a detail.
C7_ExecutorAlwaysReturns ==
    /\ Len(executed) = idx
    /\ pc = "loop" => exc = NoExc
    /\ \A k \in 1..Len(executed) :
        LET a == actions[k]
            r == executed[k]
        IN /\ ~ReachesPage(a, base_url) => ~r.success /\ Truthy(r.detail)
           /\ \A n \in PageIdx(events) :
                (events[n].idx = k /\ events[n].err # NoExc) =>
                    ~r.success /\ r.detail = events[n].err.msg
           /\ ~r.success => r.detail # None

\* An unknown action name followed by an action whose page call raises.
C7_Witness ==
    /\ pc = "returned"
    /\ Len(executed) = 2
    /\ ~HasHandler(actions[1].name)
    /\ \E n \in PageIdx(events) : events[n].idx = 2 /\ events[n].err # NoExc
    /\ Failed(executed) = {1, 2}

(***************************************************************************)
(* Properties of run_from_config (specification SpecCli).                  *)
(***************************************************************************)
\* C9: whenever run_from_config has returned, its status is 0 exactly when the
\* configuration loaded and every recorded outcome succeeded, 1 exactly when
\* it loaded and some recorded outcome failed, and 2 exactly when load_config
\* failed; an unreadable file, a text that is no JSON and a document that
\* fails validation all end in status 2.
C9_ExitStatus ==
    LET loaded == load_config(doc).ok
        ended == pc \in {"done", "raised"}
    IN /\ exit_code \subseteq {0, 1, 2}
       /\ pc = "done" <=> exit_code # {}
       /\ (ended /\ ~loaded) => exit_code = {2}
       /\ (ended /\ doc.kind \in {"unreadable", "notjson"}) => exit_code = {2}
       /\ exit_code = {2} => ~loaded /\ ~config.loaded /\ ~result.returned
       /\ exit_code = {0} <=>
            (pc = "done" /\ loaded /\ result.returned /\ Failed(result.actions) = {})
       /\ exit_code = {1} <=>
            (pc = "done" /\ loaded /\ result.returned /\ Failed(result.actions) # {})

\* A loaded configuration whose run was aborted after its first action: status 1.
C9_Witness ==
    /\ pc = "done"
    /\ exit_code = {1}
    /\ config.loaded
    /\ Len(config.actions) = 2
    /\ Len(result.actions) = 1

(***************************************************************************)
(* Properties of playwright_autobot (specification SpecAutoBot).           *)
(***************************************************************************)
\* The attempts of step k: the passes of the while loop that ran its action.
AttemptsOf(k) ==
    {n \in 1..Len(ab_events) :
        ab_events[n].step = k /\ ab_events[n].kind \in {"page", "local"}}

\* The last attempt of step k so far raised.
LastAttemptFailed(k) ==
    \E n \in AttemptsOf(k) :
        /\ ab_events[n].attempt = Cardinality(AttemptsOf(k))
        /\ ab_events[n].err # NoExc

\* Step k was given up: its last attempt raised and the loop was left.
GivenUp(k) == ab_pc # "attempt" /\ LastAttemptFailed(k)

\* C3: whenever AutoBot.run has returned or raised after _launch returned with
\* the persistent context, the context has been closed.
C3_ContextClosedOnEveryExit ==
    (ab_pc \in {"run_returned", "run_raised"} /\ Has(ab_events, "set_default_timeout"))
        => ab_context = "closed"

\* C4: with r >= 0 the effective retry count of a step, the step's action is
\* attempted at most 1 + r times, at least once when the loop has moved past
\* it, and exactly 1 + r times when every attempt failed.
C4_RetryBound ==
    \A k \in 1..ab_i :
        LET r == EffectiveRetries(ab_cfg.steps[k], ab_cfg)
            n == Cardinality(AttemptsOf(k))
        IN r >= 0 =>
            /\ n <= 1 + r
            /\ ab_pc # "attempt" => n >= 1
            /\ GivenUp(k) => n = 1 + r

\* C8: the error of a step never leaves AutoBot.run: when run raises, no step
\* has been given up (the error is a fatal one from outside the steps).
C8_StepErrorContained ==
    ab_pc = "run_raised" => \A k \in 1..ab_i : ~GivenUp(k)

\* C10: a malformed configuration document ends the process with exit status 2,
\* before any session is constructed and with no step attempted.
C10_MalformedConfigExit2 ==
    (ab_file.kind = "malformed" /\ ab_pc = "exited") =>
        /\ ab_events = <<>>
        /\ ab_i = 0
        /\ ab_status = {2}

(***************************************************************************)
(* Configuration errors of run_from_config (specification SpecCli).        *)
(***************************************************************************)
\* C11: when load_config fails, run_from_config never calls the automation
\* factory and nothing is run: no playwright call, no executed action, no
\* report; the failure is written once and the load is not tried again.
\* Conversely the factory is only ever called with a loaded configuration.
C11_ConfigErrorExcludesSession ==
    /\ ~load_config(doc).ok =>
            /\ factory_calls = 0
            /\ events = <<>>
            /\ executed = <<>>
            /\ ~result.returned
            /\ ~config.loaded
            /\ pc \in {"cli", "done", "raised"}
            /\ Len(stderr) <= 1
            /\ stdout = <<>>
    /\ factory_calls > 0 => load_config(doc).ok /\ config.loaded
    /\ factory_calls <= 1

\* A document that parses but fails validation has been reported: status 2,
\* factory never called.
C11_Witness ==
    /\ pc = "done"
    /\ doc.kind = "json"
    /\ ~load_config(doc).ok
    /\ exit_code = {2}
    /\ Len(stderr) = 1
    /\ factory_calls = 0

\* C12: a browser kind outside the supported set given in the settings of a
\* loaded configuration is reported by run_from_config as a configuration
\* failure: once the playwright session was entered with such a kind,
\* run_from_config ends by returning status 2, with no browser launched, and
\* not by an exception.
C12_UnsupportedBrowserIsConfigError ==
    (/\ entry = "cli"
     /\ factory_calls = 1
     /\ browser_type \notin AvailableBrowsers
     /\ Has(events, "playwright.enter")
     /\ pc \in {"done", "raised"})
        => /\ pc = "done"
           /\ exit_code = {2}
           /\ ~Has(events, "launch")

(***************************************************************************)
(* Required fields and URL resolution (specification SpecRun).             *)
(***************************************************************************)
\* The text s contains the word w.
Mentions(s, w) == \E k \in 1..Len(s) : s[k] = w

\* The page operations issued for the i-th action.
PageOpsOf(i) == {n \in PageIdx(events) : events[n].idx = i}

\* The i-th action lacks its selector / its text.
LacksSelector(a) ==
    a.name \in {"click", "fill", "wait_for_selector"} /\ (a.selector = None \/ a.selector = <<>>)
LacksText(a) == a.name = "fill" /\ a.text = None

\* C13: for every executed action that is a click, fill or wait_for_selector
\* with no or an empty selector, or a fill with no text, the recorded outcome is
\* a failure whose detail names the missing field (selector, text), and no page
\* operation was issued for that action.
C13_MissingFieldFails ==
    \A i \in 1..Len(executed) :
        LET a == actions[i] IN
        /\ LacksSelector(a) =>
            /\ ~executed[i].success
            /\ Mentions(executed[i].detail, "selector")
            /\ PageOpsOf(i) = {}
        /\ (LacksText(a) /\ ~LacksSelector(a)) =>
            /\ ~executed[i].success
            /\ Mentions(executed[i].detail, "text")
            /\ PageOpsOf(i) = {}
        /\ (LacksText(a) \/ LacksSelector(a)) => executed[i].name = a.name

\* A run that went on after a click with no selector: the click failed without
\* a page operation and the next action did issue one.
C13_Witness ==
    /\ pc = "returned"
    /\ Len(executed) = 2
    /\ actions[1].name = "click"
    /\ LacksSelector(actions[1])
    /\ ~executed[1].success
    /\ PageOpsOf(1) = {}
    /\ PageOpsOf(2) # {}

(***************************************************************************)
(* _handle_goto called on its own: one goto action, every combination of   *)
(* url, path and base URL being None, empty or given.                      *)
(***************************************************************************)
UrlPool == {None, <<>>, Url}
PathPool == {None, <<>>, <<"dash">>, Dash, <<"/">> \o Dash, <<"/">>, Url}
BasePool ==
    {None, <<>>, Base, Base \o <<"/">>, Base \o <<"/", "/">>, Base \o <<"/", "app">>,
     Base \o <<"/", "app", "/">>}

InitGoto ==
    /\ pc = "goto"
    /\ entry = "api"
    /\ \E u \in UrlPool, p \in PathPool :
        actions = <<BrowserAction("goto", None, None, u, p, JNull)>>
    /\ base_url \in BasePool
    /\ browser_type = "chromium"
    /\ stop_on_failure = TRUE
    /\ RunFresh
    /\ BridgeIdle
    /\ AbIdle
    /\ ExtIdle

\* self._handle_goto(page, action, base_url): _resolve_url raises, or page.goto
\* is called with the resolved URL and returns or raises.
HandleGoto ==
    /\ pc = "goto"
    /\ LET h == _handle_goto(actions[1], base_url) IN
        IF h.raises
            THEN /\ exc' = Exc("ValueError", h.msg)
                 /\ events' = events
                 /\ pc' = "goto_raised"
            ELSE \E out \in PageOutcomes :
                 /\ exc' = out
                 /\ events' = Append(events, PageCall(1, actions[1], base_url, out))
                 /\ pc' = IF out = NoExc THEN "goto_returned" ELSE "goto_raised"
    /\ UNCHANGED <<entry, actions, base_url, browser_type, stop_on_failure, executed, idx,
                   result, doc, config, factory_calls, exit_code, stdout, stderr, ab_vars,
                   ext_vars>>

GotoNext == HandleGoto

SpecGoto == InitGoto /\ [][GotoNext]_vars

\* A field counts as set when it is given and not empty.
IsSet(x) == x # None /\ x # <<>>

\* s without its trailing / leading slashes, said without recursion.
WithoutTrailingSlashes(s) ==
    SubSeq(s, 1, CHOOSE n \in 0..Len(s) :
                    /\ n = 0 \/ s[n] # "/"
                    /\ \A k \in (n + 1)..Len(s) : s[k] = "/")
WithoutLeadingSlashes(s) ==
    SubSeq(s, CHOOSE n \in 1..(Len(s) + 1) :
                    /\ n = Len(s) + 1 \/ s[n] # "/"
                    /\ \A k \in 1..(n - 1) : s[k] = "/",
           Len(s))

\* The goto has ended: navigated to target t / failed for want of a URL.
NavigatedTo(t) ==
    /\ Len(events) = 1
    /\ events[1].kind = "page"
    /\ events[1].op = "goto"
    /\ events[1].args = <<t>>
NoUrlFailure ==
    /\ events = <<>>
    /\ pc = "goto_raised"
    /\ exc = Exc("ValueError", <<"No URL provided for 'goto' action">>)

\* C14: once _handle_goto has ended, with "set" meaning given and not empty:
\* url set -> page.goto(url); else path and base URL both set -> page.goto of
\* their join; else base URL set, no path -> page.goto(base URL); else (no url,
\* no base URL, path or not) -> ValueError for the missing URL and no page call.
C14_UrlResolutionRule ==
    pc \in {"goto_returned", "goto_raised"} =>
        LET a == actions[1]
            u == IsSet(a.url)
            p == IsSet(a.path)
            b == IsSet(base_url)
        IN /\ u => NavigatedTo(a.url)
           /\ (~u /\ p /\ b) =>
                \/ NavigatedTo(WithoutTrailingSlashes(base_url) \o <<"/">>
                                 \o WithoutLeadingSlashes(a.path))
                \/ IsAbsolute(a.path) /\ NavigatedTo(a.path)
           /\ (~u /\ ~p /\ b) => NavigatedTo(base_url)
           /\ (~u /\ ~b) => NoUrlFailure

\* url, path and base URL all set: the goto went to url.
C14_Witness ==
    /\ pc = "goto_returned"
    /\ actions[1].url = Url
    /\ actions[1].path = Dash
    /\ base_url = Base
    /\ NavigatedTo(Url)

\* C15: with no url, a base URL and a relative path, the target is the base
\* URL without trailing slashes, one slash, and the path without leading
\* slashes, so a trailing slash of the base and a leading slash of the path
\* make no difference; https://example.com with /dash gives
\* https://example.com/dash.
C15_SlashNormalisation ==
    LET a == actions[1] IN
    (/\ pc \in {"goto_returned", "goto_raised"}
     /\ ~IsSet(a.url)
     /\ IsSet(a.path)
     /\ IsSet(base_url)
     /\ ~IsAbsolute(a.path))
        => LET bare == WithoutTrailingSlashes(base_url)
               rel == WithoutLeadingSlashes(a.path)
               target == events[1].args[1]
           IN /\ NavigatedTo(bare \o <<"/">> \o rel)
              /\ Len(bare) > 0 => bare[Len(bare)] # "/"
              /\ Len(rel) > 0 => rel[1] # "/"
              /\ (bare = Base /\ rel = <<"dash">>) =>
                    target = <<"https:", "/", "/", "example.com", "/", "dash">>

\* Base URL with a trailing slash and path with a leading slash: one slash.
C15_Witness ==
    /\ pc = "goto_returned"
    /\ actions[1].url = None
    /\ actions[1].path = Dash
    /\ base_url = Base \o <<"/">>
    /\ NavigatedTo(<<"https:", "/", "/", "example.com", "/", "dash">>)

(***************************************************************************)
(* Unresolvable goto within a run (specification SpecRun).                 *)
(***************************************************************************)
\* The action is a goto with neither a url nor a base URL to fall back on.
Unresolvable(a) == a.name = "goto" /\ ~IsSet(a.url) /\ ~IsSet(base_url)

\* C16: every executed goto for which no URL can be resolved has a failed
\* outcome with a non-empty detail and no page operation; with stop_on_failure
\* false the loop is only left after every action was attempted, with
\* stop_on_failure true the outcome of that goto is the last one.
C16_UnresolvableGoto ==
    \A i \in 1..Len(executed) :
        Unresolvable(actions[i]) =>
            /\ ~executed[i].success
            /\ executed[i].detail # None
            /\ executed[i].detail # <<>>
            /\ PageOpsOf(i) = {}
            /\ (~stop_on_failure /\ pc # "loop") =>
                    /\ Len(executed) = Len(actions)
                    /\ \A j \in (i + 1)..Len(actions) :
                            ReachesPage(actions[j], base_url) => PageOpsOf(j) # {}
            /\ (~stop_on_failure /\ pc = "returned") => Len(result.actions) = Len(actions)
            /\ stop_on_failure => Len(executed) = i

\* With stop_on_failure false a run went past an unresolvable goto and the
\* next action reached the page.
C16_Witness ==
    /\ pc = "returned"
    /\ ~stop_on_failure
    /\ Len(actions) = 2
    /\ Unresolvable(actions[1])
    /\ ~result.actions[1].success
    /\ PageOpsOf(1) = {}
    /\ PageOpsOf(2) # {}

(***************************************************************************)
(* Validation done by load_config (specification SpecCli).                 *)
(***************************************************************************)
\* The value is absent or null / is a string / is a mapping.
Absent(j) == j.t = "null"
FiveNames == {"goto", "click", "fill", "wait_for_selector", "screenshot"}

\* The action entry is well formed: a mapping with one of the five names,
\* strings (if anything) in selector, text, url and path, and a mapping (if
\* anything) in options.
ActionWellFormed(a) ==
    /\ a.t = "map"
    /\ "name" \in DOMAIN a.m
    /\ a.m["name"].t = "str"
    /\ \E n \in FiveNames : a.m["name"].s = <<n>>
    /\ \A f \in {"selector", "text", "url", "path"} : Absent(Get(a, f)) \/ Get(a, f).t = "str"
    /\ Absent(Get(a, "options")) \/ Get(a, "options").t = "map"

\* The conditions the claim lists, absent meaning missing or null.
ListedConditions(root) ==
    /\ root.t = "map"
    /\ ~Absent(Get(root, "actions"))
    /\ Get(root, "actions").t = "list"
    /\ Absent(Get(root, "settings")) \/ Get(root, "settings").t = "map"
    /\ \A k \in 1..Len(Get(root, "actions").items) :
            ActionWellFormed(Get(root, "actions").items[k])

\* C17 (as stated): for a file that parses, load_config fails, with an error
\* that run_from_config reports as status 2, whenever one of the listed
\* conditions is broken, and otherwise it succeeds.
C17_LoaderValidation ==
    (pc # "cli" /\ doc.kind = "json") =>
        /\ config.loaded <=> ListedConditions(doc.root)
        /\ ~config.loaded => (pc = "done" /\ exit_code = {2})

\* C17 (amended): the same with one more condition: base_url, when present and
\* not null, is a string.
C17_LoaderValidationAmended ==
    (pc # "cli" /\ doc.kind = "json") =>
        /\ config.loaded <=>
            /\ ListedConditions(doc.root)
            /\ Absent(Get(doc.root, "base_url")) \/ Get(doc.root, "base_url").t = "str"
        /\ ~config.loaded => (pc = "done" /\ exit_code = {2})

\* A document whose second action holds a number as selector was rejected.
C17_Witness ==
    /\ pc = "done"
    /\ exit_code = {2}
    /\ doc.kind = "json"
    /\ doc.root.t = "map"
    /\ Get(doc.root, "actions").t = "list"
    /\ Len(Get(doc.root, "actions").items) = 2
    /\ ActionWellFormed(Get(doc.root, "actions").items[1])
    /\ ~ActionWellFormed(Get(doc.root, "actions").items[2])

(***************************************************************************)
(* Loading and overrides of playwright_autobot (specification SpecAutoBot).*)
(***************************************************************************)
Vocabulary == {"goto", "wait", "click", "fill", "press", "screenshot", "sleep"}

\* The step entry gives an action of the vocabulary (case and surrounding
\* blanks aside, as the runner reads it).
StepActionKnown(st) ==
    /\ st.t = "map"
    /\ "action" \in DOMAIN st.m
    /\ st.m["action"].t = "str"
    /\ \E n \in Vocabulary : strip(lower(st.m["action"].s)) = <<n>>

\* The document breaks one of the conditions of the claim.
StandaloneDocBroken(root) ==
    \/ root.t # "map"
    \/ /\ root.t = "map"
       /\ \/ "steps" \notin DOMAIN root.m
          \/ root.m["steps"].t # "list"
          \/ \E k \in 1..Len(root.m["steps"].items) :
                ~StepActionKnown(root.m["steps"].items[k])

\* C18: for a file that parses, when the root is not a mapping, steps is
\* missing or not a sequence, or some step's action is absent or outside the
\* vocabulary, loading fails: main never gets to run the bot.
C18_StandaloneLoaderRejects ==
    (ab_pc # "main" /\ ab_file.kind = "json" /\ StandaloneDocBroken(ab_file.root)) =>
        /\ ab_pc \in {"main_raised", "exited"}
        /\ ab_events = <<>>
        /\ ab_cfg = NoBotConfig

\* The value the document gives for key, or the built-in default.
DocOr(key, default) ==
    IF key \in DOMAIN ab_file.root.m THEN ab_file.root.m[key] ELSE default

\* main has loaded the configuration and applied the overrides.
Configured == ab_cfg # NoBotConfig

\* C19: once main has built the configuration, each of profile, headless,
\* browser, timeout and retries is the command-line override when one was
\* given (whatever its value, 0 included), else the value of the document, else
\* the default (./pw_profile, false, chromium, 15000, 2).
C19_OverridePrecedence ==
    Configured =>
        /\ ab_cfg.profile =
            IF ab_args.profile # JNull THEN ab_args.profile
            ELSE DocOr("profile", JStr(<<"./pw_profile">>))
        /\ ab_cfg.headless =
            IF ab_args.headless # JNull
                THEN ab_args.headless.s \in {<<"1">>, <<"true">>, <<"yes">>, <<"y">>, <<"on">>}
            ELSE DocOr("headless", JBool(FALSE)).b
        /\ ab_cfg.browser =
            IF ab_args.browser # JNull THEN ab_args.browser.s
            ELSE lower(DocOr("browser", JStr(<<"chromium">>)).s)
        /\ ab_cfg.default_timeout =
            IF ab_args.timeout # JNull THEN ab_args.timeout.n
            ELSE DocOr("default_timeout", JNum(15000)).n
        /\ ab_cfg.step_default_retries =
            IF ab_args.retries # JNull THEN ab_args.retries.n
            ELSE DocOr("step_default_retries", JNum(2)).n

(***************************************************************************)
(* Overall success of a report (specification SpecRun).                    *)
(***************************************************************************)
\* C20: for every report BrowserAutomation.run returns, successful is true
\* exactly when every configured action was attempted and its outcome is a
\* success: the report holds one outcome per action, none skipped by an
\* abort, and all of them succeeded.
C20_OverallSuccess ==
    pc = "returned" =>
        (successful(result.actions) <=>
            /\ idx = Len(actions)
            /\ Len(result.actions) = Len(actions)
            /\ \A i \in 1..Len(actions) :
                    /\ result.actions[i].name = actions[i].name
                    /\ result.actions[i].success)

\* A report with a failure followed by a success is not successful.
C20_Witness ==
    /\ pc = "returned"
    /\ Len(result.actions) = 2
    /\ ~result.actions[1].success
    /\ result.actions[2].success
    /\ ~successful(result.actions)

(***************************************************************************)
(* load_config called twice on one document, entry by entry, and           *)
(* BotConfig.from_dict called twice on one document.                       *)
(***************************************************************************)
MaxLoads == 2

\* The list of the previous call kept, as with a list shared between calls.
FreshList_kept(acc) == acc

\* actions: list[BrowserAction] = []
FreshList(acc) == <<>>

NoFile == [kind |-> "none", root |-> JNull]

InitLoad ==
    /\ ld_pc = "load"
    /\ ld_acc = <<>>
    /\ ld_k = 0
    /\ ld_loads = <<>>
    /\ \/ doc \in DocPool /\ ab_file = NoFile
       \/ doc = NoFile /\ ab_file \in AbDocPool
    /\ pc = "idle"
    /\ entry = "api"
    /\ actions = <<>>
    /\ base_url = None
    /\ browser_type = "chromium"
    /\ stop_on_failure = TRUE
    /\ RunFresh
    /\ config = NoConfig
    /\ factory_calls = 0
    /\ exit_code = {}
    /\ stdout = <<>>
    /\ stderr = <<>>
    /\ ab_pc = "idle"
    /\ ab_args = NoArgs
    /\ ab_cfg = NoBotConfig
    /\ ab_status = {}
    /\ ab_context = "none"
    /\ ab_i = 0
    /\ ab_attempt = 0
    /\ ab_events = <<>>
    /\ ab_exc = NoExc
    /\ ab_rc = {}
    /\ SvcIdle
    /\ JcIdle

\* load_config, lines 42-61: read, parse and check the root; actions = []
LdBegin ==
    /\ ld_pc = "load"
    /\ doc # NoFile
    /\ Len(ld_loads) < MaxLoads
    /\ LET h == LoadHeader(doc) IN
        IF h.ok
            THEN /\ ld_acc' = FreshList(ld_acc)
                 /\ ld_pc' = "items"
                 /\ ld_loads' = ld_loads
            ELSE /\ ld_acc' = ld_acc
                 /\ ld_pc' = "load"
                 /\ ld_loads' = Append(ld_loads, h)
    /\ ld_k' = 0
    /\ UNCHANGED <<bridge_vars, ab_vars, svc_vars, jc_vars>>

\* One pass of the for loop: actions.append(BrowserAction.from_dict(...))
LdItem ==
    /\ ld_pc = "items"
    /\ ld_k < Len(LoadHeader(doc).val.items)
    /\ LET r == LoadAction(LoadHeader(doc).val.items[ld_k + 1], ld_k) IN
        IF r.ok
            THEN /\ ld_acc' = Append(ld_acc, r.val)
                 /\ ld_pc' = "items"
                 /\ ld_loads' = ld_loads
            ELSE /\ ld_acc' = ld_acc
                 /\ ld_pc' = "load"
                 /\ ld_loads' = Append(ld_loads, r)
    /\ ld_k' = ld_k + 1
    /\ UNCHANGED <<bridge_vars, ab_vars, svc_vars, jc_vars>>

\* return AutomationConfig(actions=actions, base_url=base_url, settings=settings)
LdReturn ==
    /\ ld_pc = "items"
    /\ ld_k = Len(LoadHeader(doc).val.items)
    /\ LET h == LoadHeader(doc).val IN
        ld_loads' = Append(ld_loads, Ok(AutomationConfig(ld_acc, h.base_url, h.settings)))
    /\ ld_pc' = "load"
    /\ UNCHANGED <<ld_acc, ld_k, bridge_vars, ab_vars, svc_vars, jc_vars>>

\* BotConfig.from_dict(load_json_or_jsonc(path)), the whole call
LdBot ==
    /\ ld_pc = "load"
    /\ ab_file # NoFile
    /\ Len(ld_loads) < MaxLoads
    /\ LET raw == load_json_or_jsonc(ab_file) IN
        ld_loads' = Append(ld_loads, IF raw.ok THEN BotConfig_from_dict(raw.val) ELSE raw)
    /\ UNCHANGED <<ld_pc, ld_acc, ld_k, bridge_vars, ab_vars, svc_vars, jc_vars>>

LoadNext ==
    \/ LdBegin
    \/ LdItem
    \/ LdReturn
    \/ LdBot

SpecLoad == InitLoad /\ [][LoadNext]_vars

\* The entries of the document's action / step list (none unless it is a list).
DocEntries(file, key) ==
    IF file.kind = "json" /\ file.root.t = "map" /\ Get(file.root, key).t = "list"
        THEN Get(file.root, key).items
    ELSE <<>>

OutcomeLines == SubSeq(stdout, 2, Len(stdout))

\* The line names the outcome and gives its status word.
NamesOutcome(line, a) ==
    /\ Len(line) >= 4
    /\ line[1] = "- "
    /\ line[2] = a.name
    /\ line[3] = ": "
    /\ line[4] = IF a.success THEN "ok" ELSE "FAILED"

\* The line ends with the detail in parentheses / has nothing after the status.
HasParenthetical(line, d) == SubSeq(line, 5, Len(line)) = <<" (">> \o d \o <<")">>
NoParenthetical(line) == Len(line) = 4

\* run_from_config has written its report.
Reported == pc = "done" /\ result.returned

\* C22 (as stated): the report has one line per recorded outcome, in outcome
\* order, each with the action name and the status word ok or FAILED; a line
\* carries the detail in parentheses exactly when its outcome failed.
C22_ReportLines ==
    Reported =>
        /\ Len(OutcomeLines) = Len(result.actions)
        /\ \A k \in 1..Len(result.actions) :
            LET a == result.actions[k]
                line == OutcomeLines[k]
            IN /\ NamesOutcome(line, a)
               /\ IF a.success THEN NoParenthetical(line)
                  ELSE HasParenthetical(line, a.detail)

\* C22 (amended): the same, but a line carries the detail in parentheses
\* exactly when its outcome failed with a non-empty detail; a failure whose
\* detail is the empty string has no parenthetical.
C22_ReportLinesAmended ==
    Reported =>
        /\ Len(OutcomeLines) = Len(result.actions)
        /\ \A k \in 1..Len(result.actions) :
            LET a == result.actions[k]
                line == OutcomeLines[k]
            IN /\ NamesOutcome(line, a)
               /\ IF ~a.success /\ a.detail # None /\ a.detail # <<>>
                    THEN HasParenthetical(line, a.detail)
                  ELSE NoParenthetical(line)
               /\ a.success => a.detail = None

\* A report of two lines: a success without and a failure with a parenthetical.
C22_Witness ==
    /\ Reported
    /\ Len(OutcomeLines) = 2
    /\ result.actions[1].success
    /\ NoParenthetical(OutcomeLines[1])
    /\ ~result.actions[2].success
    /\ HasParenthetical(OutcomeLines[2], result.actions[2].detail)
    /\ result.actions[2].detail # <<>>

(***************************************************************************)
(* app/service.py: AirdropSummaryService, calls made one after another on  *)
(* one instance.  A summary is identified by the number of the fetch that  *)
(* produced it; _fetch_tweets returns or raises.                           *)
(***************************************************************************)
MaxCalls == 3

\* The test with the cache left out: "if force_refresh:".
NeedsRefresh_force_only(force, cache) == force

\* if force_refresh or self._cache is None
NeedsRefresh(force, cache) == force \/ cache = {}

SvcCall(c, force, fetched, raised, summary, at) ==
    [call |-> c, force |-> force, fetched |-> fetched, raised |-> raised,
     summary |-> summary, generated_at |-> at]

\* AirdropSummaryService(settings)
InitService ==
    /\ svc_pc = "ready"
    /\ svc_cache = {}
    /\ svc_last_updated = {}
    /\ svc_clock \in 1..2
    /\ svc_fetches = 0
    /\ svc_log = <<>>
    /\ pc = "idle"
    /\ entry = "api"
    /\ actions = <<>>
    /\ base_url = None
    /\ browser_type = "chromium"
    /\ stop_on_failure = TRUE
    /\ RunFresh
    /\ BridgeIdle
    /\ AbIdle
    /\ LdIdle
    /\ JcIdle

\* service.refresh(): fetch, summarize, store in _cache, stamp _last_updated;
\* when the fetch raises nothing is stored.
SvcRefresh ==
    /\ svc_pc = "ready"
    /\ Len(svc_log) < MaxCalls
    /\ svc_fetches' = svc_fetches + 1
    /\ \E fails \in BOOLEAN :
        IF fails
            THEN /\ UNCHANGED <<svc_cache, svc_last_updated, svc_clock>>
                 /\ svc_log' = Append(svc_log, SvcCall("refresh", FALSE, TRUE, TRUE, {}, {}))
            ELSE /\ svc_cache' = {svc_fetches + 1}
                 /\ svc_last_updated' = {svc_clock}
                 /\ svc_clock' = svc_clock + 1
                 /\ svc_log' = Append(svc_log, SvcCall("refresh", FALSE, TRUE, FALSE,
                                                       {svc_fetches + 1}, {svc_clock}))
    /\ UNCHANGED <<svc_pc, bridge_vars, ab_vars, ld_vars, jc_vars>>

\* service.get_summary(force_refresh)
SvcGetSummary ==
    /\ svc_pc = "ready"
    /\ Len(svc_log) < MaxCalls
    /\ \E force \in BOOLEAN :
        IF NeedsRefresh(force, svc_cache)
            THEN /\ svc_fetches' = svc_fetches + 1
                 /\ \E fails \in BOOLEAN :
                    IF fails
                        THEN /\ UNCHANGED <<svc_cache, svc_last_updated, svc_clock>>
                             /\ svc_log' = Append(svc_log,
                                    SvcCall("get_summary", force, TRUE, TRUE, {}, {}))
                        ELSE /\ svc_cache' = {svc_fetches + 1}
                             /\ svc_last_updated' = {svc_clock}
                             /\ svc_clock' = svc_clock + 1
                             /\ svc_log' = Append(svc_log,
                                    SvcCall("get_summary", force, TRUE, FALSE,
                                            {svc_fetches + 1}, {svc_clock}))
            ELSE /\ UNCHANGED <<svc_cache, svc_last_updated, svc_clock, svc_fetches>>
                 /\ svc_log' = Append(svc_log,
                        SvcCall("get_summary", force, FALSE, FALSE, svc_cache,
                                svc_last_updated))
    /\ UNCHANGED <<svc_pc, bridge_vars, ab_vars, ld_vars, jc_vars>>

ServiceNext ==
    \/ SvcRefresh
    \/ SvcGetSummary

SpecService == InitService /\ [][ServiceNext]_vars

\* The calls before the n-th that stored a summary (a refresh that did not raise).
StoresBefore(n) == {m \in 1..(n - 1) : svc_log[m].fetched /\ ~svc_log[m].raised}
Latest(S) == CHOOSE m \in S : \A j \in S : j <= m

\* C23: a call of get_summary fetches exactly when force_refresh is true or
\* no earlier call has stored a summary; when it does not fetch it returns the
\* summary and time stored by the latest call that did store one; and every
\* response given once a refresh has succeeded has a generated_at.
C23_CacheOrRefresh ==
    \A n \in 1..Len(svc_log) :
        LET c == svc_log[n] IN
        c.call = "get_summary" =>
            /\ c.fetched <=> (c.force \/ StoresBefore(n) = {})
            /\ ~c.fetched =>
                /\ ~c.raised
                /\ c.summary = svc_log[Latest(StoresBefore(n))].summary
                /\ c.generated_at = svc_log[Latest(StoresBefore(n))].generated_at
            /\ (~c.raised /\ StoresBefore(n + 1) # {}) => c.generated_at # {}
            /\ ~c.raised => c.summary # {}

\* A refresh, then a get_summary served from the cache, then a forced one.
C23_Witness ==
    /\ Len(svc_log) = 3
    /\ svc_log[1].call = "refresh" /\ ~svc_log[1].raised
    /\ svc_log[2].call = "get_summary" /\ ~svc_log[2].fetched
    /\ svc_log[2].summary = svc_log[1].summary
    /\ svc_log[3].call = "get_summary" /\ svc_log[3].fetched /\ ~svc_log[3].raised
    /\ svc_fetches = 2

(***************************************************************************)
(* The start_url navigation of AutoBot.run.                                *)
(***************************************************************************)
StartNavs == {k \in DOMAIN ab_events : ab_events[k].kind = "page" /\ ab_events[k].step = 0}
StepEvents == {k \in DOMAIN ab_events : ab_events[k].step >= 1}
Launches == {k \in DOMAIN ab_events : ab_events[k].kind = "set_default_timeout"}
StartUrlConfigured == ab_cfg # NoBotConfig /\ PyTruthy(ab_cfg.start_url)
PastStartUrl == Launches # {} /\ ab_pc # "start_url"

\* C24: with a start_url configured, once the session is launched and run
\* has moved past the navigation there is exactly one navigation to it, it
\* comes after the launch and before every attempt of every step, and when it
\* failed no step was attempted and its error is what ends the run.
C24_StartUrlOnce ==
    /\ Cardinality(StartNavs) <= 1
    /\ StartNavs # {} => StartUrlConfigured
    /\ (StartUrlConfigured /\ PastStartUrl) => Cardinality(StartNavs) = 1
    /\ \A k \in StartNavs :
        /\ ab_events[k].op = "goto"
        /\ ab_events[k].attempt = 0
        /\ \E l \in Launches : l < k
        /\ \A j \in StepEvents : k < j
        /\ ab_events[k].err # NoExc =>
            /\ StepEvents = {}
            /\ ab_i = 0
            /\ ab_attempt = 0
            /\ ab_exc = ab_events[k].err
            /\ ab_pc \in {"unwind", "run_raised", "main_returned", "exited"}
            /\ ab_rc \subseteq {1}
    /\ (StartUrlConfigured /\ StepEvents # {}) => StartNavs # {}

\* The navigation failed and the run was left with its error.
C24_Witness ==
    /\ ab_pc = "run_raised"
    /\ \E k \in StartNavs : ab_events[k].err # NoExc
    /\ Len(ab_cfg.steps) >= 1

\* The navigation succeeded and a step was retried after it.
C24_WitnessRetry ==
    /\ \E k \in StartNavs : ab_events[k].err = NoExc
    /\ \E j \in StepEvents : ab_events[j].attempt = 2

(***************************************************************************)
(* Session errors of BrowserAutomation.run.                                *)
(***************************************************************************)
Marks(k) == {n \in DOMAIN events : events[n].kind = k}
NothingAttempted ==
    /\ executed = <<>>
    /\ idx = 0
    /\ Marks("page") = {}
    /\ Marks("new_page") = {}
NoReport == ~result.returned /\ result.actions = <<>>
RunOver == pc \in {"raised", "returned"}

\* C25: a run that ends without a launched browser (the factory, the
\* browser-kind lookup or launch raised) ends with the error propagating, no
\* action attempted, no session call repeated and no result returned; a run
\* whose browser was launched and whose new_context raised has closed the
\* browser once, attempted nothing and returns no result.
C25_SessionErrorFatal ==
    /\ \A k \in {"playwright.enter", "launch", "new_context", "browser.close"} :
        Cardinality(Marks(k)) <= 1
    /\ (RunOver /\ Marks("launch") = {}) =>
        /\ pc = "raised"
        /\ exc # NoExc
        /\ NothingAttempted
        /\ NoReport
        /\ Marks("new_context") = {}
        /\ Marks("browser.close") = {}
        /\ (Marks("playwright.enter") # {} /\ ~_get_browser_type(browser_type).ok)
            => exc = _get_browser_type(browser_type).exc
    /\ (pc \in {"exit_playwright", "raised", "returned"}
            /\ Marks("launch") # {} /\ Marks("new_context") = {}) =>
        /\ exc # NoExc
        /\ pc # "returned"
        /\ NothingAttempted
        /\ NoReport
        /\ \E c \in Marks("browser.close") : \A l \in Marks("launch") : l < c
        /\ Marks("context.close") = {}

\* new_context raised after a successful launch and run was left.
C25_Witness ==
    /\ pc = "raised"
    /\ Marks("launch") # {}
    /\ Marks("new_context") = {}
    /\ Marks("browser.close") # {}
    /\ Len(actions) >= 1

(***************************************************************************)
(* The timeout in force for the page call of a step.                       *)
(***************************************************************************)
TimedOps == {"goto", "wait_for_selector", "click", "fill", "press"}
SessionDefault == {ab_events[k].timeout : k \in Launches}

\* The timeout of a page call: its timeout argument, or the session's default
\* when the call passes none.
TimeoutInForce(e) == IF e.timeout # {} THEN e.timeout ELSE UNION SessionDefault

\* C26: the page call of a goto, wait, click, fill or press step runs under the
\* step's timeout when the step has one, whatever its value, and under the run
\* default when it has none.
C26_StepTimeoutOverrides ==
    \A k \in StepEvents :
        LET e == ab_events[k]
            st == ab_cfg.steps[e.step]
        IN (e.kind = "page" /\ e.op \in TimedOps) =>
            TimeoutInForce(e) = IF st.timeout.t # "null" THEN {st.timeout.n}
                                ELSE {ab_cfg.default_timeout}

(***************************************************************************)
(* Screenshot actions of the bridge runner that name no path.              *)
(***************************************************************************)
PathlessScreenshots ==
    {n \in 1..Len(executed) : actions[n].name = "screenshot" /\ ~Truthy(actions[n].path)}

\* C27: a screenshot action with no path is not failed for the missing field:
\* the capture is asked of the page, and the action succeeds when the page
\* makes it.
C27_ScreenshotPathDefaults ==
    \A n \in PathlessScreenshots :
        \E k \in Marks("page") :
            /\ events[k].idx = n
            /\ events[k].op = "screenshot"
            /\ events[k].err = NoExc => executed[n].success

(***************************************************************************)
(* Either program is started: run_from_config on a bridge file, or main of *)
(* playwright_autobot on a standalone file.                                *)
(***************************************************************************)
InitEither == InitCli \/ InitAutoBot

EitherNext ==
    \/ CliNext
    \/ AbNext

SpecEither == InitEither /\ [][EitherNext]_vars

\* The bridge file has an action entry whose name is a string outside the
\* five names of the bridge vocabulary.
NamesUnsupportedAction(root) ==
    /\ root.t = "map"
    /\ Get(root, "actions").t = "list"
    /\ \E k \in 1..Len(Get(root, "actions").items) :
        LET a == Get(root, "actions").items[k] IN
        /\ a.t = "map"
        /\ Get(a, "name").t = "str"
        /\ \A n \in FiveNames : Get(a, "name").s # <<n>>

\* The action of the step is a string that names nothing of the vocabulary.
UnknownStep(st) ==
    /\ st.action.t = "str"
    /\ \A n \in Vocabulary : NormalizedAction(st) # <<n>>

\* C28: a bridge file naming an unsupported action is rejected by load_config
\* (status 2, no automation built, no browser call).  A standalone step naming
\* an unknown action is loaded and fails when executed: its attempts raise
\* "Unknown action" with no page call, and no later step is reached.
C28_UnsupportedActionName ==
    /\ (entry = "cli" /\ pc # "cli" /\ doc.kind = "json" /\ NamesUnsupportedAction(doc.root)) =>
        /\ ~config.loaded
        /\ pc = "done"
        /\ exit_code = {2}
        /\ factory_calls = 0
        /\ events = <<>>
        /\ executed = <<>>
    /\ \A n \in 1..ab_i :
        UnknownStep(ab_cfg.steps[n]) =>
            /\ n = ab_i
            /\ ab_pc = "attempt" \/ ab_exc = ValueError(<<"Unknown action">>)
            /\ ab_pc \notin {"steps", "finish", "run_returned"}
            /\ \A k \in StepEvents :
                ab_events[k].step = n =>
                    /\ ab_events[k].kind \in {"local", "backoff"}
                    /\ ab_events[k].kind = "local" =>
                            ab_events[k].err = ValueError(<<"Unknown action">>)

\* The second step names an unknown action; it was attempted until the
\* attempts ran out and main returned 1.
C28_Witness ==
    /\ ab_pc = "main_returned"
    /\ ab_rc = {1}
    /\ ab_i = 2
    /\ UnknownStep(ab_cfg.steps[2])
    /\ \E k \in StepEvents : ab_events[k].step = 2 /\ ab_events[k].attempt = 2

\* A bridge file with a supported action followed by an unsupported one was
\* rejected.
C28_WitnessBridge ==
    /\ entry = "cli"
    /\ pc = "done"
    /\ exit_code = {2}
    /\ NamesUnsupportedAction(doc.root)
    /\ Len(Get(doc.root, "actions").items) = 2
    /\ ActionWellFormed(Get(doc.root, "actions").items[1])

(***************************************************************************)
(* The pauses of the retry loop of AutoBot.run.                            *)
(***************************************************************************)
Attempts == {k \in StepEvents : ab_events[k].kind \in {"page", "local"}}
Backoffs == {k \in DOMAIN ab_events : ab_events[k].kind = "backoff"}

\* C29: two consecutive attempts of a step have exactly the backoff pause
\* between them; an attempt that succeeded is followed by no pause; and a
\* pause follows a failed attempt only when another attempt of the same step
\* comes after it, so none follows the final failed attempt.
C29_BackoffBetweenAttempts ==
    /\ \A j, k \in Attempts :
        (/\ ab_events[j].step = ab_events[k].step
         /\ ab_events[k].attempt = ab_events[j].attempt + 1) =>
            /\ k = j + 2
            /\ j + 1 \in Backoffs
    /\ \A k \in Attempts :
        ab_events[k].err = NoExc => k + 1 \notin Backoffs
    /\ \A b \in Backoffs :
        /\ b - 1 \in Attempts
        /\ ab_events[b - 1].err # NoExc
        /\ ab_events[b - 1].step = ab_events[b].step
        /\ IF b < Len(ab_events)
            THEN /\ b + 1 \in Attempts
                 /\ ab_events[b + 1].step = ab_events[b].step
                 /\ ab_events[b + 1].attempt = ab_events[b - 1].attempt + 1
            ELSE ab_pc = "attempt" /\ ab_i = ab_events[b].step

\* A step failed three times, with a pause after the first and the second
\* attempt and none after the third, and the run was left.
C29_Witness ==
    /\ ab_pc = "run_raised"
    /\ Cardinality(Backoffs) = 2
    /\ \E k \in Attempts :
        /\ ab_events[k].attempt = 3
        /\ ab_events[k].err # NoExc
        /\ k + 1 \notin Backoffs
        /\ {k - 1, k - 3} \subseteq Backoffs

(***************************************************************************)
(* load_json_or_jsonc on the text of a file, character by character.  The  *)
(* characters are "/", "*", the line feed, the double quote and the digit  *)
(* 1; over them a JSON document is a number (1, 11, ...) or a string,      *)
(* with line feeds as the only white space.                                *)
(***************************************************************************)
MaxText == 6

LF == "\n"
Quote == "\""
Alphabet == {"/", "*", LF, Quote, "1"}

StartsWith(t, i, a, b) == i + 1 <= Len(t) /\ t[i] = a /\ t[i + 1] = b

\* The end of the line of position i: the position of the first line feed
\* from i on, or one past the end of the text.
EndOfLine(t, i) ==
    IF \E j \in i..Len(t) : t[j] = LF
        THEN CHOOSE j \in i..Len(t) : t[j] = LF /\ \A m \in i..(j - 1) : t[m] # LF
        ELSE Len(t) + 1

\* re.sub(r"//.*?$", "", text, flags=re.MULTILINE) from position i on: each
\* match runs from "//" to just before the next line feed.
RECURSIVE StripLineFrom(_, _)
StripLineFrom(t, i) ==
    IF i > Len(t) THEN <<>>
    ELSE IF StartsWith(t, i, "/", "/") THEN StripLineFrom(t, EndOfLine(t, i))
    ELSE <<t[i]>> \o StripLineFrom(t, i + 1)

\* The positions j at which a "*/" ends a match of r"/\*.*?\*/" begun at i.
Closers(t, i) == {j \in (i + 2)..Len(t) : StartsWith(t, j, "*", "/")}
Least(S) == CHOOSE j \in S : \A m \in S : j <= m

\* re.sub(r"/\*.*?\*/", "", text, flags=re.DOTALL) from position i on: each
\* match runs from "/*" to the first "*/" after it, line feeds included.
RECURSIVE StripBlockFrom(_, _)
StripBlockFrom(t, i) ==
    IF i > Len(t) THEN <<>>
    ELSE IF StartsWith(t, i, "/", "*") /\ Closers(t, i) # {}
        THEN StripBlockFrom(t, Least(Closers(t, i)) + 2)
    ELSE <<t[i]>> \o StripBlockFrom(t, i + 1)

\* str.strip of the white space json.loads skips around the value.
RECURSIVE SkipLF(_)
SkipLF(t) == IF t # <<>> /\ Head(t) = LF THEN SkipLF(Tail(t)) ELSE t
RECURSIVE SkipTrailingLF(_)
SkipTrailingLF(t) ==
    IF t # <<>> /\ t[Len(t)] = LF THEN SkipTrailingLF(SubSeq(t, 1, Len(t) - 1)) ELSE t

RECURSIVE Decimal(_)
Decimal(t) == IF t = <<>> THEN 0 ELSE 10 * Decimal(SubSeq(t, 1, Len(t) - 1)) + 1

\* json.loads(text): the value, or JSONDecodeError.
json_loads(text) ==
    LET v == SkipTrailingLF(SkipLF(text)) IN
    IF v # <<>> /\ \A k \in 1..Len(v) : v[k] = "1" THEN Ok(JNum(Decimal(v)))
    ELSE IF /\ Len(v) >= 2
            /\ v[1] = Quote
            /\ v[Len(v)] = Quote
            /\ \A k \in 2..(Len(v) - 1) : v[k] \notin {Quote, LF}
        THEN Ok(JStr(SubSeq(v, 2, Len(v) - 1)))
    ELSE Err(Exc("JSONDecodeError", <<"Expecting value">>))

RECURSIVE TextsOfLen(_)
TextsOfLen(n) ==
    IF n = 0 THEN {<<>>}
    ELSE {Append(t, c) : t \in TextsOfLen(n - 1), c \in Alphabet}
\* The texts of at most n characters.
TextsUpTo(n) == UNION {TextsOfLen(k) : k \in 0..n}

\* text = path.read_text(encoding="utf-8")
InitJsonc ==
    /\ jc_pc = "read"
    /\ jc_src \in TextsUpTo(MaxText)
    /\ jc_text = jc_src
    /\ jc_out = [ok |-> FALSE, val |-> <<>>]
    /\ pc = "idle"
    /\ entry = "api"
    /\ actions = <<>>
    /\ base_url = None
    /\ browser_type = "chromium"
    /\ stop_on_failure = TRUE
    /\ RunFresh
    /\ BridgeIdle
    /\ AbIdle
    /\ LdIdle
    /\ SvcIdle

\* text = re.sub(r"//.*?$", "", text, flags=re.MULTILINE)
JcStripLine ==
    /\ jc_pc = "read"
    /\ jc_text' = StripLineFrom(jc_text, 1)
    /\ jc_pc' = "line_stripped"
    /\ UNCHANGED <<jc_src, jc_out, bridge_vars, ab_vars, ld_vars, svc_vars>>

\* text = re.sub(r"/\*.*?\*/", "", text, flags=re.DOTALL)
JcStripBlock ==
    /\ jc_pc = "line_stripped"
    /\ jc_text' = StripBlockFrom(jc_text, 1)
    /\ jc_pc' = "stripped"
    /\ UNCHANGED <<jc_src, jc_out, bridge_vars, ab_vars, ld_vars, svc_vars>>

\* return json.loads(text)
JcParse ==
    /\ jc_pc = "stripped"
    /\ jc_out' = json_loads(jc_text)
    /\ jc_pc' = "done"
    /\ UNCHANGED <<jc_src, jc_text, bridge_vars, ab_vars, ld_vars, svc_vars>>

JsoncNext ==
    \/ JcStripLine
    \/ JcStripBlock
    \/ JcParse

SpecJsonc == InitJsonc /\ [][JsoncNext]_vars

\* The text contains the two characters a, b next to each other.
HasPair(t, a, b) == \E i \in 1..Len(t) : StartsWith(t, i, a, b)

\* Every "/*" of the text has a "*/" after it: it opens a region, or lies in one.
EveryBlockCloses(t) ==
    \A i \in 1..Len(t) : StartsWith(t, i, "/", "*") => Closers(t, i) # {}

\* C30: what json.loads is given holds no "//" and, when every "/*" of the
\* file is closed by a "*/", no "/*": the comments are gone, those that lie
\* between double quotes too; and a file with neither "//" nor "/*" is parsed
\* as json.loads parses its text.
C30_TextualStripping ==
    jc_pc = "done" =>
        /\ ~HasPair(jc_text, "/", "/")
        /\ EveryBlockCloses(jc_src) => ~HasPair(jc_text, "/", "*")
        /\ (~HasPair(jc_src, "/", "/") /\ ~HasPair(jc_src, "/", "*")) =>
            /\ jc_text = jc_src
            /\ jc_out = json_loads(jc_src)

(***************************************************************************)
(* No retry in BrowserAutomation.run.                                      *)
(***************************************************************************)
\* C31: every action the loop has consumed has exactly one outcome, in list
\* order, and at most one page call, made while it was the current action; an
\* action that failed has no second page call and no second outcome, and
\* nothing is recorded for an action not yet consumed.
C31_NoRetry ==
    /\ Len(executed) = idx
    /\ idx <= Len(actions)
    /\ \A k \in 1..Len(executed) : executed[k].name = actions[k].name
    /\ \A i \in 1..Len(actions) : Cardinality(PageOpsOf(i)) <= 1
    /\ \A n \in PageIdx(events) : events[n].idx \in 1..idx
    /\ \A i \in 1..Len(executed) :
        /\ ~ReachesPage(actions[i], base_url) => PageOpsOf(i) = {}
        /\ \A n \in PageOpsOf(i) : executed[i].success <=> events[n].err = NoExc

\* Without stop_on_failure the first action failed on the page and the second
\* ran: two outcomes, one page call each.
C31_Witness ==
    /\ pc = "returned"
    /\ ~stop_on_failure
    /\ Len(actions) = 2
    /\ Len(executed) = 2
    /\ ~executed[1].success
    /\ \E n \in PageOpsOf(1) : events[n].err # NoExc
    /\ Cardinality(PageIdx(events)) = 2

(***************************************************************************)
(* Order of the session calls of BrowserAutomation.run.                    *)
(***************************************************************************)
\* C32: every page call comes after launch, new_context and new_page and
\* before context.close() and browser.close(); context.close() comes before
\* browser.close(); neither is called twice; and when run is over the browser
\* that was launched and the context that was created have each been closed
\* once.
C32_LifecycleOrder ==
    /\ \A n \in Marks("page") :
        /\ \A k \in {"launch", "new_context", "new_page"} : \E l \in Marks(k) : l < n
        /\ \A c \in Marks("context.close") \cup Marks("browser.close") : n < c
    /\ \A c \in Marks("context.close") :
        /\ \E l \in Marks("new_context") : l < c
        /\ \A b \in Marks("browser.close") : c < b
    /\ \A b \in Marks("browser.close") : \E l \in Marks("launch") : l < b
    /\ Cardinality(Marks("context.close")) <= 1
    /\ Cardinality(Marks("browser.close")) <= 1
    /\ RunOver =>
        /\ Marks("launch") # {} => Cardinality(Marks("browser.close")) = 1
        /\ Marks("new_context") # {} => Cardinality(Marks("context.close")) = 1

\* A run that made two page calls and returned after both closes.
C32_Witness ==
    /\ pc = "returned"
    /\ Cardinality(Marks("page")) = 2
    /\ Marks("context.close") # {}
    /\ Marks("browser.close") # {}

(***************************************************************************)
(* Termination of AutoBot.run.  Every call the program makes returns or    *)
(* raises, so a step that can be taken is eventually taken.                *)
(***************************************************************************)
SpecAutoBotFair == InitAutoBot /\ [][AbNext]_vars /\ WF_vars(AbNext)

RunLeft == ab_pc \in {"run_returned", "run_raised"}

\* The attempt counter of the current step is at most one more than
\* max(1, retries).
AttemptBounded ==
    ab_pc \in {"attempt", "unwind"} /\ ab_i >= 1 =>
        ab_attempt <= Max(1, EffectiveRetries(ab_cfg.steps[ab_i], ab_cfg)) + 1

\* C33: once AutoBot.run is entered it is eventually left, by return or by an
\* exception, whatever the steps and the retry counts (zero and negative
\* included); the attempt counter of a step never passes max(1, retries) + 1.
C33_RunTerminates == [](AttemptBounded) /\ (ab_pc = "run" ~> RunLeft)

\* A step with a negative retry count failed twice and run was left.
C33_Witness ==
    /\ ab_pc = "run_raised"
    /\ ab_i >= 1
    /\ EffectiveRetries(ab_cfg.steps[ab_i], ab_cfg) < 0
    /\ ab_attempt = 2

(***************************************************************************)
(* Validation failures of a standalone step.                               *)
(***************************************************************************)
\* The step, as the runner reads it, lacks a field its action requires or
\* names no action of the vocabulary.
Invalid(st) ==
    /\ st.action.t \in {"str", "null"}
    /\ LET a == NormalizedAction(st) IN
        \/ \A n \in Vocabulary : a # <<n>>
        \/ a = <<"goto">> /\ ~PyTruthy(st.url)
        \/ a \in {<<"wait">>, <<"click">>, <<"fill">>} /\ ~PyTruthy(st.selector)
        \/ a = <<"press">> /\ (~PyTruthy(st.selector) \/ ~PyTruthy(st.value))

EventsOfStep(n) == {k \in StepEvents : ab_events[k].step = n}
Aborted == ab_pc \in {"unwind", "run_raised", "main_returned", "exited"}

\* C34: a step that fails validation is attempted again after a backoff pause,
\* every attempt raising the same ValueError with no page call, until the
\* attempts are used up (max(1, retries) + 1 of them, so at least two); the
\* error then leaves run and no later step is reached.
C34_ValidationFailureRetried ==
    \A n \in 1..ab_i :
        Invalid(ab_cfg.steps[n]) =>
            LET tries == EventsOfStep(n) \cap Attempts
                budget == Max(1, EffectiveRetries(ab_cfg.steps[n], ab_cfg)) + 1
            IN /\ n = ab_i
               /\ \A k \in EventsOfStep(n) : ab_events[k].kind \in {"local", "backoff"}
               /\ \A k \in tries :
                    /\ ab_events[k].err.type = "ValueError"
                    /\ \A j \in tries : ab_events[j].err = ab_events[k].err
               /\ Cardinality(tries) = ab_attempt
               /\ Cardinality(tries) <= budget
               /\ \/ ab_pc = "attempt" /\ Cardinality(tries) < budget
                                      /\ Cardinality(EventsOfStep(n) \cap Backoffs) = ab_attempt
                  \/ /\ Aborted
                     /\ Cardinality(tries) = budget
                     /\ Cardinality(EventsOfStep(n) \cap Backoffs) = budget - 1
                     /\ ab_exc.type = "ValueError"
                     /\ ab_rc \subseteq {1}

\* A goto without url was attempted at least twice, no page call made, and
\* the run was left.
C34_Witness ==
    /\ ab_pc = "run_raised"
    /\ ab_i >= 1
    /\ Invalid(ab_cfg.steps[ab_i])
    /\ ab_attempt >= 2
    /\ NormalizedAction(ab_cfg.steps[ab_i]) = <<"goto">>

(***************************************************************************)
(* Names of the actions load_config hands to BrowserAutomation.run.        *)
(***************************************************************************)
\* The outcome is the one _execute_action gives when getattr finds no handler.
NoHandlerOutcome(r) ==
    /\ ~r.success
    /\ Mentions(r.detail, "'BrowserAutomation' object has no attribute")

\* C35: every action of a configuration load_config returned has one of the
\* five names; run_from_config then hands run only actions for which a
\* handler exists, and no outcome is the no-handler failure.
C35_LoadedNamesHaveHandlers ==
    entry = "cli" =>
        /\ config.loaded =>
            \A k \in 1..Len(config.actions) :
                /\ config.actions[k].name \in FiveNames
                /\ HasHandler(config.actions[k].name)
        /\ \A k \in 1..Len(actions) : actions[k].name \in FiveNames
        /\ \A k \in 1..Len(executed) : ~NoHandlerOutcome(executed[k])

\* A loaded configuration of two actions, a screenshot among them, was run to
\* the end and reported.
C35_Witness ==
    /\ entry = "cli"
    /\ pc = "done"
    /\ config.loaded
    /\ Len(executed) = 2
    /\ \E k \in 1..2 : actions[k].name = "screenshot" /\ executed[k].success
====
